---------------------------- MODULE Spec2Model ----------------------------
(***************************************************************************)
(* A state-machine model of src/main.cpp: the SandSimulation grid and its  *)
(* cellular automaton (Update and the Sand / WetSand / Water rules), the   *)
(* displacement pass of HapticSystem::Update, and the frame loop of main   *)
(* that sequences them.                                                    *)
(*                                                                         *)
(* The automaton's Update is modelled one loop iteration per step: the     *)
(* number of iterations done, scan, is part of the state (it gives the     *)
(* loop variables x and y) and nothing else can run while pc = "tick", as  *)
(* in the single-threaded program.  rand() % 2 is the nondeterministic     *)
(* bit r of that step.                                                     *)
(*                                                                         *)
(* History variables (they never influence the program's variables):       *)
(*   org  - for each grid index, the index its cell occupied when the      *)
(*          current tick or displacement pass started (NoOrg for Empty)    *)
(*   oob  - TRUE once m_grid has been indexed at coordinates outside       *)
(*          [0,width) x [0,height)                                         *)
(*   wet  - number of TryWetSand reactions of the current tick that        *)
(*          cleared the water cell                                         *)
(*   n0   - number of non-Empty cells when the current tick started        *)
(*   tick0 - the grid when the current tick started                        *)
(*   seen - the origins of the cells the current tick has processed        *)
(*   again - the origins of the cells it has processed more than once      *)
(*   fallen - the origins of the cells that a step of the current tick     *)
(*          took to a lower row                                            *)
(*   ticks - number of ticks started (counted in SpecScen only)            *)
(*   g0   - the grid the behaviour started with (SpecScen only)            *)
(*   call - the last direct call of a grid operation (SpecOps only)        *)
(***************************************************************************)
EXTENDS Integers, Sequences, FiniteSets, TLC

\* ------------------------------------------------------------- bounds
GridW == 2
GridH == 2
MaxCells == 2
MaxTicks == 5

\* ---------------------------------------------------------- constants
SOAK_THRESHOLD == 2

Empty == "Empty"
Sand == "Sand"
WetSand == "WetSand"
Water == "Water"
MaterialType == {Empty, Sand, WetSand, Water}

\* What a read of memory outside the vector yields (only a wrong bounds
\* check can get there).
Garbage == [type |-> "Garbage", soak |-> 0]

EmptyCell == [type |-> Empty, soak |-> 0]
m_boundaryCell == [type |-> Sand, soak |-> 0]

NoOrg == -1

VARIABLES width, height, m_grid, pc, scan, org, oob, wet, n0, tick0, seen, again, fallen, ticks, g0, call

\* HapticSystem haptics: its fields, the point it was last centred on and
\* the mode of its last Update.
VARIABLES anchorPos, devicePos, proxyPos, rawInputVal, currentForce1D, currentMode, currentAxis, smoothedResistance, centre, updated

haptics ==
    <<anchorPos, devicePos, proxyPos, rawInputVal, currentForce1D, currentMode,
      currentAxis, smoothedResistance, centre, updated>>

\* HapticDevice device: connected and m_serial ("null", "shut" for a port
\* that is not open, "open"); the last command delivered on the port, how
\* the port was released, and whether anything was written after that.
VARIABLES connected, m_serial, wire, down, late

\* HapticDevice's private fields, in millimetres, millinewtons and units
\* of 25 ms, and the call of Sync in progress or last made.
VARIABLES m_currentPositionMeters, m_lastSentForce, m_lastSendTime, sync

device ==
    <<connected, m_serial, wire, down, late, m_currentPositionMeters,
      m_lastSentForce, m_lastSendTime, sync>>

\* main's locals and sim.tickDelayMs, and what the current iteration of
\* its loop has done.
VARIABLES timeAccumulator, tickDelayMs, simulateInput, frame

loop == <<timeAccumulator, tickDelayMs, simulateInput, frame>>

\* What the grid's own operations leave alone.
coupling == <<haptics, device, loop>>

vars == <<width, height, m_grid, pc, scan, org, oob, wet, n0, tick0, seen, again, fallen, ticks, g0, call, coupling>>

\* --------------------------------------------------------------- grid

\* The coordinates the vector really holds (Resize: width * height cells).
InRange(x, y) == x \in 0..(width - 1) /\ y \in 0..(height - 1)

\* The bounds check with <= for < on the right edge.
IsInBoundsInclusive(x, y) == x >= 0 /\ x <= width /\ y >= 0 /\ y < height

IsInBounds(x, y) == x >= 0 /\ x < width /\ y >= 0 /\ y < height

GetIndex(x, y) == y * width + x

\* The simulation object with its history fields, as the operators below
\* pass it along.
Sim == [grid |-> m_grid, org |-> org, oob |-> oob, wet |-> wet]

\* m_grid[GetIndex(x, y)] read.
At(s, x, y) ==
    IF GetIndex(x, y) \in DOMAIN s.grid THEN s.grid[GetIndex(x, y)] ELSE Garbage

OrgAt(s, x, y) ==
    IF GetIndex(x, y) \in DOMAIN s.org THEN s.org[GetIndex(x, y)] ELSE NoOrg

\* History: m_grid was indexed at (x, y).
Touch(s, x, y) == [s EXCEPT !.oob = @ \/ ~InRange(x, y)]

\* m_grid[GetIndex(x, y)] = c, the cell's origin o going with it.
Put(s, x, y, c, o) ==
    LET i == GetIndex(x, y)
        t == Touch(s, x, y)
    IN  IF i \in DOMAIN s.grid
        THEN [t EXCEPT !.grid[i] = c, !.org[i] = IF c.type = Empty THEN NoOrg ELSE o]
        ELSE t

Get(s, x, y) == IF ~IsInBounds(x, y) THEN m_boundaryCell ELSE At(s, x, y)

\* Set keeps the identity of a cell it changes in place; a cell written
\* over Empty is a new cell.
Set(s, x, y, type, soak) ==
    IF IsInBounds(x, y)
    THEN Put(s, x, y, [type |-> type, soak |-> soak],
             IF OrgAt(s, x, y) = NoOrg THEN GetIndex(x, y) ELSE OrgAt(s, x, y))
    ELSE s

\* Move that forgets to empty the source cell.
MoveKeepsSource(s, x1, y1, x2, y2) ==
    IF ~IsInBounds(x1, y1) \/ ~IsInBounds(x2, y2)
    THEN [s |-> s, ret |-> FALSE]
    ELSE IF At(s, x2, y2).type # Empty
    THEN [s |-> Touch(s, x2, y2), ret |-> FALSE]
    ELSE [s |-> Put(s, x2, y2, At(s, x1, y1), OrgAt(s, x1, y1)), ret |-> TRUE]

\* Move without the test of the destination cell.
MoveOverwrites(s, x1, y1, x2, y2) ==
    IF ~IsInBounds(x1, y1) \/ ~IsInBounds(x2, y2)
    THEN [s |-> s, ret |-> FALSE]
    ELSE LET d == Put(s, x2, y2, At(s, x1, y1), OrgAt(s, x1, y1))
         IN  [s |-> Put(d, x1, y1, EmptyCell, NoOrg), ret |-> TRUE]

\* Move that empties the source cell's type and leaves its soak.
MoveKeepsSoak(s, x1, y1, x2, y2) ==
    IF ~IsInBounds(x1, y1) \/ ~IsInBounds(x2, y2)
    THEN [s |-> s, ret |-> FALSE]
    ELSE IF At(s, x2, y2).type # Empty
    THEN [s |-> Touch(s, x2, y2), ret |-> FALSE]
    ELSE LET d == Put(s, x2, y2, At(s, x1, y1), OrgAt(s, x1, y1))
         IN  [s |-> Put(d, x1, y1, [type |-> Empty, soak |-> At(s, x1, y1).soak],
                        NoOrg),
              ret |-> TRUE]

Move(s, x1, y1, x2, y2) ==
    IF ~IsInBounds(x1, y1) \/ ~IsInBounds(x2, y2)
    THEN [s |-> s, ret |-> FALSE]
    ELSE IF At(s, x2, y2).type # Empty
    THEN [s |-> Touch(s, x2, y2), ret |-> FALSE]
    ELSE LET d == Put(s, x2, y2, At(s, x1, y1), OrgAt(s, x1, y1))
         IN  [s |-> Put(d, x1, y1, EmptyCell, NoOrg), ret |-> TRUE]

\* Swap that writes the first cell over the second and leaves the first.
SwapCopies(s, x1, y1, x2, y2) ==
    IF ~IsInBounds(x1, y1) \/ ~IsInBounds(x2, y2)
    THEN [s |-> s, ret |-> FALSE]
    ELSE [s |-> Put(s, x2, y2, At(s, x1, y1), OrgAt(s, x1, y1)), ret |-> TRUE]

Swap(s, x1, y1, x2, y2) ==
    IF ~IsInBounds(x1, y1) \/ ~IsInBounds(x2, y2)
    THEN [s |-> s, ret |-> FALSE]
    ELSE LET a == Put(s, x1, y1, At(s, x2, y2), OrgAt(s, x2, y2))
         IN  [s |-> Put(a, x2, y2, At(s, x1, y1), OrgAt(s, x1, y1)), ret |-> TRUE]

Clear(s) ==
    [s EXCEPT !.grid = [i \in DOMAIN s.grid |-> EmptyCell],
              !.org = [i \in DOMAIN s.org |-> NoOrg]]

\* Number of non-Empty cells of a grid.
Material(g) == Cardinality({i \in DOMAIN g : g[i].type # Empty})

\* History: every cell's origin is where it is now.
Stamp(s) ==
    [s EXCEPT !.org = [i \in DOMAIN s.grid |->
                          IF s.grid[i].type = Empty THEN NoOrg ELSE i]]

\* ---------------------------------------------------------- automaton

\* The offsets without the last one, two cells below.
offsetsAdjacent ==
    << <<0, 1>>, <<1, 0>>, <<-1, 0>>, <<0, -1>>, <<1, 1>>, <<-1, 1>>,
       <<1, -1>>, <<-1, -1>> >>

\* The offsets with the first two, below and right, exchanged.
offsetsRightFirst ==
    << <<1, 0>>, <<0, 1>>, <<-1, 0>>, <<0, -1>>, <<1, 1>>, <<-1, 1>>,
       <<1, -1>>, <<-1, -1>>, <<0, 2>> >>

offsets ==
    << <<0, 1>>, <<1, 0>>, <<-1, 0>>, <<0, -1>>, <<1, 1>>, <<-1, 1>>,
       <<1, -1>>, <<-1, -1>>, <<0, 2>> >>

\* History: one more reaction cleared its water cell.
Reacted(s) == [s EXCEPT !.wet = @ + 1]

\* The absorb test with <= for <.
CanAbsorbAtThreshold(cell) == cell.type = WetSand /\ cell.soak <= SOAK_THRESHOLD

\* cell.type == WetSand && cell.soak < SOAK_THRESHOLD
CanAbsorb(cell) == cell.type = WetSand /\ cell.soak < SOAK_THRESHOLD

\* cell.type == WetSand && cell.soak >= SOAK_THRESHOLD && sy < wy
CanSink(cell, sy, wy) ==
    cell.type = WetSand /\ cell.soak >= SOAK_THRESHOLD /\ sy < wy

\* The loop of TryWetSand from offsets[k] on.
RECURSIVE TryWetSandFrom(_, _, _, _)
TryWetSandFrom(s, wx, wy, k) ==
    IF k > Len(offsets)
    THEN [s |-> s, ret |-> FALSE]
    ELSE LET sx == wx + offsets[k][1]
             sy == wy + offsets[k][2]
             cell == Get(s, sx, sy)
         IN  IF ~IsInBounds(sx, sy)
             THEN TryWetSandFrom(s, wx, wy, k + 1)
             ELSE IF cell.type = Sand
             THEN [s |-> Reacted(Set(Set(s, sx, sy, WetSand, 1), wx, wy, Empty, 0)),
                   ret |-> TRUE]
             ELSE IF CanAbsorb(cell)
             THEN [s |-> Reacted(Set(Set(s, sx, sy, WetSand, cell.soak + 1),
                                     wx, wy, Empty, 0)),
                   ret |-> TRUE]
             ELSE IF CanSink(cell, sy, wy)
             THEN [s |-> Swap(s, wx, wy, sx, sy).s, ret |-> TRUE]
             ELSE TryWetSandFrom(s, wx, wy, k + 1)

\* The loop started at the second offset.
TryWetSandSkipsFirst(s, wx, wy) == TryWetSandFrom(s, wx, wy, 2)

TryWetSand(s, wx, wy) == TryWetSandFrom(s, wx, wy, 1)

\* UpdateSand with the diagonal moves tried before the move straight down.
UpdateSandDiagonalFirst(s, x, y, r) ==
    IF y + 1 >= height
    THEN s
    ELSE LET below == Get(s, x, y + 1).type
             leftEmpty == (x - 1 >= 0) /\ Get(s, x - 1, y + 1).type = Empty
             rightEmpty == (x + 1 < width) /\ Get(s, x + 1, y + 1).type = Empty
         IN  IF below = Water THEN Swap(s, x, y, x, y + 1).s
             ELSE IF leftEmpty /\ rightEmpty
             THEN Move(s, x, y, x + (IF r = 0 THEN -1 ELSE 1), y + 1).s
             ELSE IF leftEmpty THEN Move(s, x, y, x - 1, y + 1).s
             ELSE IF rightEmpty THEN Move(s, x, y, x + 1, y + 1).s
             ELSE IF below = Empty THEN Move(s, x, y, x, y + 1).s
             ELSE s

\* UpdateSand that, when the cell cannot go down, lets it flow to an Empty
\* cell beside it, as Water does.
UpdateSandFlows(s, x, y, r) ==
    LET below == Get(s, x, y + 1).type
        leftEmpty == (x - 1 >= 0) /\ Get(s, x - 1, y + 1).type = Empty
        rightEmpty == (x + 1 < width) /\ Get(s, x + 1, y + 1).type = Empty
        lSide == (x - 1 >= 0) /\ Get(s, x - 1, y).type = Empty
        rSide == (x + 1 < width) /\ Get(s, x + 1, y).type = Empty
    IN  IF y + 1 < height /\ below = Water THEN Swap(s, x, y, x, y + 1).s
        ELSE IF y + 1 < height /\ below = Empty THEN Move(s, x, y, x, y + 1).s
        ELSE IF y + 1 < height /\ leftEmpty /\ rightEmpty
        THEN Move(s, x, y, x + (IF r = 0 THEN -1 ELSE 1), y + 1).s
        ELSE IF y + 1 < height /\ leftEmpty THEN Move(s, x, y, x - 1, y + 1).s
        ELSE IF y + 1 < height /\ rightEmpty THEN Move(s, x, y, x + 1, y + 1).s
        ELSE IF lSide /\ rSide
        THEN Move(s, x, y, IF r = 0 THEN x - 1 ELSE x + 1, y).s
        ELSE IF lSide THEN Move(s, x, y, x - 1, y).s
        ELSE IF rSide THEN Move(s, x, y, x + 1, y).s
        ELSE s

\* r is rand() % 2.
UpdateSand(s, x, y, r) ==
    IF y + 1 >= height
    THEN s
    ELSE LET below == Get(s, x, y + 1).type
             leftEmpty == (x - 1 >= 0) /\ Get(s, x - 1, y + 1).type = Empty
             rightEmpty == (x + 1 < width) /\ Get(s, x + 1, y + 1).type = Empty
         IN  IF below = Water THEN Swap(s, x, y, x, y + 1).s
             ELSE IF below = Empty THEN Move(s, x, y, x, y + 1).s
             ELSE IF leftEmpty /\ rightEmpty
             THEN Move(s, x, y, x + (IF r = 0 THEN -1 ELSE 1), y + 1).s
             ELSE IF leftEmpty THEN Move(s, x, y, x - 1, y + 1).s
             ELSE IF rightEmpty THEN Move(s, x, y, x + 1, y + 1).s
             ELSE s

\* UpdateWetSand sliding diagonally when blocked, as Sand does.
UpdateWetSandSlides(s, x, y) ==
    IF y + 1 >= height
    THEN s
    ELSE LET below == Get(s, x, y + 1).type
             leftEmpty == (x - 1 >= 0) /\ Get(s, x - 1, y + 1).type = Empty
             rightEmpty == (x + 1 < width) /\ Get(s, x + 1, y + 1).type = Empty
         IN  IF below = Empty THEN Move(s, x, y, x, y + 1).s
             ELSE IF below = Water THEN Swap(s, x, y, x, y + 1).s
             ELSE IF leftEmpty THEN Move(s, x, y, x - 1, y + 1).s
             ELSE IF rightEmpty THEN Move(s, x, y, x + 1, y + 1).s
             ELSE s

UpdateWetSand(s, x, y) ==
    IF y + 1 >= height
    THEN s
    ELSE LET below == Get(s, x, y + 1).type
         IN  IF below = Empty THEN Move(s, x, y, x, y + 1).s
             ELSE IF below = Water THEN Swap(s, x, y, x, y + 1).s
             ELSE s

\* The movement part of UpdateWater, after TryWetSand returned false.
WaterFlow(s, x, y, r) ==
    IF y + 1 < height /\ Get(s, x, y + 1).type = Empty
    THEN Move(s, x, y, x, y + 1).s
    ELSE IF y + 1 < height
    THEN LET left == (x - 1 >= 0) /\ Get(s, x - 1, y + 1).type = Empty
             right == (x + 1 < width) /\ Get(s, x + 1, y + 1).type = Empty
             lSide == (x - 1 >= 0) /\ Get(s, x - 1, y).type = Empty
             rSide == (x + 1 < width) /\ Get(s, x + 1, y).type = Empty
         IN  IF left /\ right
             THEN Move(s, x, y, IF r = 0 THEN x - 1 ELSE x + 1, y + 1).s
             ELSE IF left THEN Move(s, x, y, x - 1, y + 1).s
             ELSE IF right THEN Move(s, x, y, x + 1, y + 1).s
             ELSE IF lSide /\ rSide
             THEN Move(s, x, y, IF r = 0 THEN x - 1 ELSE x + 1, y).s
             ELSE IF lSide THEN Move(s, x, y, x - 1, y).s
             ELSE IF rSide THEN Move(s, x, y, x + 1, y).s
             ELSE s
    ELSE s

UpdateWater(s, x, y, r) ==
    LET t == TryWetSand(s, x, y)
    IN  IF t.ret THEN t.s ELSE WaterFlow(s, x, y, r)

\* The body of Update's loops for the cell at (x, y).
UpdateAt(s, x, y, r) ==
    LET type == At(s, x, y).type
        t == Touch(s, x, y)
    IN  CASE type = Sand -> UpdateSand(t, x, y, r)
          [] type = WetSand -> UpdateWetSand(t, x, y)
          [] type = Water -> UpdateWater(t, x, y, r)
          [] OTHER -> t

\* The loops exchanged: columns left to right, each from the top down.
ScanCellByColumn(k) == [x |-> k \div height, y |-> k % height]

\* The rows scanned from 0 up to height - 1.
ScanCellTopDown(k) == [x |-> k % width, y |-> k \div width]

\* Update's loops: y from height - 1 down to 0, x from 0 up to width - 1.
\* The loop variables in iteration k (from 0).
ScanCell(k) == [x |-> k % width, y |-> height - 1 - (k \div width)]

\* The loop variables of the iteration about to run.
CX == ScanCell(scan).x

CY == ScanCell(scan).y

Row(i) == i \div width

Col(i) == i % width

\* History: the origin of the material cell the iteration about to run
\* processes, if there is one.
Visited ==
    IF m_grid[GetIndex(CX, CY)].type = Empty THEN {} ELSE {org[GetIndex(CX, CY)]}

\* History: the origins of the cells that are in a lower row in grid t
\* than in grid s.
Fell(s, t) ==
    {s.org[i] : i \in {j \in DOMAIN s.org :
        /\ s.org[j] # NoOrg
        /\ \E k \in DOMAIN t.org : t.org[k] = s.org[j] /\ Row(k) > Row(j)}}

\* ------------------------------------------------------- displacement

Abs(n) == IF n < 0 THEN -n ELSE n

\* The offsets <<dy, dx>> of ring r at which FindNearestEmpty's test holds:
\* those of the grid's Empty cells on the ring.
RingHits(s, targetX, targetY, r) ==
    {<<Row(i) - targetY, Col(i) - targetX>> :
        i \in {j \in DOMAIN s.grid :
                 /\ Abs(Col(j) - targetX) <= r
                 /\ Abs(Row(j) - targetY) <= r
                 /\ (Abs(Col(j) - targetX) = r \/ Abs(Row(j) - targetY) = r)
                 /\ s.grid[j].type = Empty}}


\* The first of a ring's hits had the loops run over dx, then dy.
FirstHitByColumn(hits) ==
    CHOOSE h \in hits :
        \A g \in hits : h[2] < g[2] \/ (h[2] = g[2] /\ h[1] <= g[1])

\* The first of a ring's hits in the order of the loops: dy, then dx.
FirstHit(hits) ==
    CHOOSE h \in hits :
        \A g \in hits : h[1] < g[1] \/ (h[1] = g[1] /\ h[2] <= g[2])

\* return glm::ivec2(nx, ny) for the hit h = <<dy, dx>>.
HitCell(targetX, targetY, h) == <<targetX + h[2], targetY + h[1]>>

\* The loop over r of FindNearestEmpty from ring r on; hits are ring r's.
RECURSIVE FindRing(_, _, _, _, _, _)
FindRing(s, targetX, targetY, maxRadius, r, hits) ==
    IF r > maxRadius THEN <<-1, -1>>
    ELSE IF hits = {}
    THEN FindRing(s, targetX, targetY, maxRadius, r + 1,
                  RingHits(s, targetX, targetY, r + 1))
    ELSE HitCell(targetX, targetY, FirstHit(hits))

FindNearestEmpty(s, targetX, targetY, maxRadius) ==
    IF IsInBounds(targetX, targetY) /\ Get(s, targetX, targetY).type = Empty
    THEN <<targetX, targetY>>
    ELSE FindRing(s, targetX, targetY, maxRadius, 1,
                  RingHits(s, targetX, targetY, 1))

\* Positions of the proxy are in half cells: proxyPos = (PX / 2, PY / 2).
\* The arithmetic below is the float arithmetic of DisplaceSand done
\* exactly (no rounding error).

\* static_cast<int>(P / 2): truncation toward zero.
TruncHalf(P) == IF P >= 0 THEN P \div 2 ELSE -((-P) \div 2)

\* a / sqrt(S) >= c, for S > 0.
GeRoot(a, S, c) ==
    IF c <= 0 THEN a >= 0 \/ a * a <= c * c * S
    ELSE a >= 0 /\ a * a >= c * c * S

\* floor((P + a / sqrt(S)) / 2) when that is >= 0.
FloorRoot(P, a, S) ==
    CHOOSE n \in 0..(Abs(P) + Abs(a) + 1) :
        GeRoot(a, S, 2 * n - P) /\ ~GeRoot(a, S, 2 * (n + 1) - P)

\* static_cast<int>((P + a / sqrt(S)) / 2).
TruncRoot(P, a, S) ==
    IF GeRoot(a, S, -P) THEN FloorRoot(P, a, S) ELSE -FloorRoot(-P, -a, S)

\* HapticSystem::radius, in cells.
radius == 1

\* FindNearestEmpty's maxRadius in DisplaceSand.
SearchRadius == 3

\* static_cast<int>(target) for the cell (x, y) and the proxy (PX, PY):
\* target = proxyPos + dir * (radius + 1.5), dir the unit vector from the
\* proxy to the cell, (0, -1) when the cell is at the proxy.
Target(x, y, PX, PY) ==
    LET dx == 2 * x - PX
        dy == 2 * y - PY
        S == dx * dx + dy * dy
        K == 2 * radius + 3
    IN  IF S = 0
        THEN <<TruncHalf(PX), TruncHalf(PY - K)>>
        ELSE <<TruncRoot(PX, dx * K, S), TruncRoot(PY, dy * K, S)>>

\* A test of the radius that every cell of the box passes.
InRadiusBox(x, y, PX, PY) == TRUE

\* dx*dx + dy*dy <= rSq
InRadius(x, y, PX, PY) ==
    (2 * x - PX) * (2 * x - PX) + (2 * y - PY) * (2 * y - PY)
        <= 4 * radius * radius

\* if (best.x != -1) sim.Move(x, y, best.x, best.y)
MoveToBest(s, x, y, best) ==
    IF best[1] # -1 THEN Move(s, x, y, best[1], best[2]).s ELSE s

\* FindNearestEmpty(static_cast<int>(target.x), static_cast<int>(target.y), 3)
BestFor(s, target) == FindNearestEmpty(s, target[1], target[2], SearchRadius)

\* The body of DisplaceSand's loops for the cell at (x, y).  Outside the
\* grid Get yields the boundary cell and Move(x, y, ...) returns false
\* whatever FindNearestEmpty finds, so the search is not evaluated there.
DisplaceAt(s, x, y, PX, PY) ==
    IF Get(s, x, y).type # Empty /\ InRadius(x, y, PX, PY)
    THEN IF ~IsInBounds(x, y) THEN Move(s, x, y, -1, -1).s
         ELSE MoveToBest(s, x, y, BestFor(s, Target(x, y, PX, PY)))
    ELSE s

\* DisplaceSand's loops from the k-th cell of the box on, rows first.
RECURSIVE DisplaceFrom(_, _, _, _)
DisplaceFrom(s, PX, PY, k) ==
    LET side == 2 * radius + 1
        x == TruncHalf(PX) - radius + (k % side)
        y == TruncHalf(PY) - radius + (k \div side)
    IN  IF k >= side * side THEN s
        ELSE DisplaceFrom(DisplaceAt(s, x, y, PX, PY), PX, PY, k + 1)

\* The cell of index i is a cell of DisplaceSand's box.
InBox(i, PX, PY) ==
    /\ Abs(Col(i) - TruncHalf(PX)) <= radius
    /\ Abs(Row(i) - TruncHalf(PY)) <= radius

\* DisplaceSand; when the box holds no material cell of the grid, every Get
\* in it yields Empty or, outside the grid, the boundary cell, for which
\* Move returns false: the grid is left as it is.
DisplaceSand(s, PX, PY) ==
    IF \A i \in DOMAIN s.grid : s.grid[i].type = Empty \/ ~InBox(i, PX, PY)
    THEN s
    ELSE DisplaceFrom(s, PX, PY, 0)

\* ------------------------------------------------------------ actions

Commit(s) ==
    /\ m_grid' = s.grid
    /\ org' = s.org
    /\ oob' = s.oob
    /\ wet' = s.wet

\* m_grid after Resize(w, h): w * h cells { MaterialType::Empty }.
EmptyGrid(w, h) == [i \in 0..(w * h - 1) |-> EmptyCell]

NoCall ==
    [op |-> "none", x1 |-> 0, y1 |-> 0, x2 |-> 0, y2 |-> 0, pre |-> <<>>,
     ret |-> FALSE]


X_Axis == "X_Axis"
Y_Axis == "Y_Axis"
Mode_1DOF == "Mode_1DOF"
Mode_2DOF == "Mode_2DOF"

\* Positions of the haptic system are in half cells, <<x, y>>.  proxyPos,
\* devicePos and anchorPos start at { 30, 30 }, the centre of the
\* 60 x 60 grid; here the centre of the GridW x GridH grid.
HomePos == <<GridW, GridH>>

\* Time is in units of 8 ms: sim.tickDelayMs is TICK_DELAY_DEFAULT or, by
\* the slider, half of it; an iteration of the loop takes one unit or two.
TICK_DELAY_DEFAULT == 2

Delays == {1, TICK_DELAY_DEFAULT}

DeltaTimes == {1, 2}

\* float m_lastSentForce = -999.0f, in millinewtons.
NeverSent == -999000

\* No call of Sync yet: glfwGetTime() is 0.
NoSync ==
    [at |-> "idle", force |-> 0, maxReads |-> 0, reads |-> 0, last |-> "none",
     now |-> 0, attempted |-> FALSE, failed |-> FALSE, failedForce |-> 0,
     retried |-> FALSE, raised |-> FALSE]

\* No iteration of main's loop has begun.
NoFrame ==
    [began |-> FALSE, due |-> FALSE, ticks |-> 0, updates |-> 0, passes |-> 0,
     hovered |-> FALSE, site |-> "none"]

\* HapticSystem haptics, HapticDevice device and main's locals as
\* constructed; tickDelayMs is TICK_DELAY_DEFAULT.  rawInputVal is in
\* millimetres, currentForce1D in quarters of a newton, smoothedResistance
\* is 0 or 1 for zero or more than zero.
Constructed ==
    /\ proxyPos = HomePos
    /\ devicePos = HomePos
    /\ anchorPos = HomePos
    /\ smoothedResistance = 0
    /\ currentForce1D = 0
    /\ rawInputVal = 0
    /\ currentAxis = X_Axis
    /\ currentMode = Mode_1DOF
    /\ centre = HomePos
    /\ updated = "none"
    /\ connected = FALSE
    /\ m_serial = "null"
    /\ wire = "none"
    /\ down = "no"
    /\ late = FALSE
    /\ m_currentPositionMeters = 0
    /\ m_lastSentForce = NeverSent
    /\ m_lastSendTime = 0
    /\ sync = NoSync
    /\ timeAccumulator = 0
    /\ tickDelayMs = TICK_DELAY_DEFAULT
    /\ simulateInput = TRUE
    /\ frame = NoFrame

\* The state after construction: SandSimulation() resizes to width x height
\* Empty cells; main enters its loop.
Init ==
    /\ width = GridW
    /\ height = GridH
    /\ m_grid = EmptyGrid(GridW, GridH)
    /\ pc = "gate"
    /\ scan = 0
    /\ fallen = {}
    /\ org = [i \in 0..(GridW * GridH - 1) |-> NoOrg]
    /\ oob = FALSE
    /\ wet = 0
    /\ n0 = 0
    /\ tick0 = <<>>
    /\ seen = {}
    /\ again = {}
    /\ ticks = 0
    /\ g0 = <<>>
    /\ call = NoCall
    /\ Constructed

\* sim.Update() starts: the loops' first cell.
TickStart ==
    /\ pc = "gate"
    /\ pc' = "tick"
    /\ scan' = 0
    /\ fallen' = {}
    /\ Commit([Stamp(Sim) EXCEPT !.wet = 0])
    /\ n0' = Material(m_grid)
    /\ tick0' = m_grid
    /\ seen' = {}
    /\ again' = {}
    /\ UNCHANGED <<coupling, width, height, g0, call>>

\* main: timeAccumulator >= sim.tickDelayMs.
BeginTick == TickStart /\ UNCHANGED ticks

\* main: the accumulated time is below tickDelayMs, no tick this frame.
SkipTick ==
    /\ pc = "gate"
    /\ pc' = "ui"
    /\ Commit([Stamp(Sim) EXCEPT !.wet = 0])
    /\ n0' = Material(m_grid)
    /\ tick0' = m_grid
    /\ seen' = {}
    /\ again' = {}
    /\ UNCHANGED <<coupling, width, height, scan, fallen, ticks, g0, call>>

\* One iteration of Update's inner loop.
UpdateCell ==
    /\ pc = "tick"
    /\ \E r \in {0, 1} :
          LET u == UpdateAt(Sim, CX, CY, r)
          IN  Commit(u) /\ fallen' = fallen \cup Fell(Sim, u)
    /\ seen' = seen \cup Visited
    /\ again' = again \cup (Visited \cap seen)
    /\ IF scan + 1 >= width * height
       THEN pc' = "ui" /\ scan' = 0
       ELSE pc' = "tick" /\ scan' = scan + 1
    /\ UNCHANGED <<coupling, width, height, n0, tick0, ticks, g0, call>>

\* main: the Controls window; "Reset Sand" calls sim.Clear().
Controls ==
    /\ pc = "ui"
    /\ pc' = "interact"
    /\ \E reset \in BOOLEAN :
          Commit([Stamp(IF reset THEN Clear(Sim) ELSE Sim) EXCEPT !.wet = 0])
    /\ n0' = 0
    /\ tick0' = <<>>
    /\ seen' = {}
    /\ again' = {}
    /\ fallen' = {}
    /\ UNCHANGED <<coupling, width, height, scan, ticks, g0, call>>

\* The soak of main's paint command.
PaintSoak(type) == IF type = WetSand THEN SOAK_THRESHOLD ELSE 0

\* main: the simulation view; a pressed mouse button paints the selected
\* material at the cell under the mouse, which may lie outside the grid.
Interact ==
    /\ pc = "interact"
    /\ pc' = "haptics"
    /\ \/ UNCHANGED <<m_grid, org, oob, wet>>
       \/ \E x \in -1..width, y \in -1..height, type \in {Sand, WetSand, Water} :
             LET s == Stamp(Set(Sim, x, y, type, PaintSoak(type)))
             IN  Material(s.grid) <= MaxCells /\ Commit(s)
    /\ UNCHANGED <<coupling, width, height, scan, n0, tick0, seen, again, fallen, ticks, g0, call>>

\* HapticSystem::Update, for the grid: the displacement pass around the
\* proxy's new position, which the damped approach may put anywhere.
HapticsUpdate ==
    /\ pc = "haptics"
    /\ pc' = "gate"
    /\ \E PX \in -1..(2 * width), PY \in -1..(2 * height) :
          Commit(DisplaceSand(Stamp(Sim), PX, PY))
    /\ UNCHANGED <<coupling, width, height, scan, n0, tick0, seen, again, fallen, ticks, g0, call>>

Next ==
    \/ BeginTick
    \/ SkipTick
    \/ UpdateCell
    \/ Controls
    \/ Interact
    \/ HapticsUpdate

Spec == Init /\ [][Next]_vars

\* ------------------------------------------- ticks on arbitrary grids

\* The cells a grid can hold: paint gives Sand, Water and WetSand of soak
\* SOAK_THRESHOLD, TryWetSand gives WetSand of soak 1.
Stuff ==
    {[type |-> Sand, soak |-> 0], [type |-> Water, soak |-> 0]}
        \cup {[type |-> WetSand, soak |-> k] : k \in 1..SOAK_THRESHOLD}

\* The w x h grid holding the cells f on the indices S.
GridOf(w, h, S, f) ==
    [i \in 0..(w * h - 1) |-> IF i \in S THEN f[i] ELSE EmptyCell]

\* The index sets of at most n cells of a w x h grid.
Places(w, h, n) == {T \in SUBSET (0..(w * h - 1)) : Cardinality(T) <= n}

\* Any painted grid, at the start of a frame.
StartWith(w, h, g) ==
    /\ width = w
    /\ height = h
    /\ m_grid = g
    /\ pc = "gate"
    /\ scan = 0
    /\ fallen = {}
    /\ org = [i \in DOMAIN g |-> IF g[i].type = Empty THEN NoOrg ELSE i]
    /\ oob = FALSE
    /\ wet = 0
    /\ n0 = 0
    /\ tick0 = <<>>
    /\ seen = {}
    /\ again = {}
    /\ ticks = 0
    /\ call = NoCall
    /\ Constructed

\* Any w x h grid of at most n material cells.
StartAny(w, h, n) ==
    \E S \in Places(w, h, n) : \E f \in [S -> Stuff] :
        StartWith(w, h, GridOf(w, h, S, f))

TickInit == StartAny(GridW + 1, GridH + 1, MaxCells) /\ g0 = <<>>

\* The rest of a frame in which nothing is reset or painted and the proxy
\* is away from the grid: Controls, Interact and HapticsUpdate leave the
\* grid as it is.
QuietFrame ==
    /\ pc = "ui"
    /\ pc' = "gate"
    /\ Commit([Stamp(Sim) EXCEPT !.wet = 0])
    /\ n0' = 0
    /\ tick0' = <<>>
    /\ seen' = {}
    /\ again' = {}
    /\ fallen' = {}
    /\ UNCHANGED <<coupling, width, height, scan, ticks, g0, call>>

TickNext == BeginTick \/ UpdateCell \/ QuietFrame

SpecTick == TickInit /\ [][TickNext]_vars

\* ------------------------------------------------------------ settling

\* The cells paint gives other than Water: Sand, and WetSand of soak
\* SOAK_THRESHOLD.
DryStuff == {[type |-> type, soak |-> PaintSoak(type)] : type \in {Sand, WetSand}}

\* Any (GridW + 1) x GridH grid of at most MaxCells cells of Sand and
\* WetSand; g0 keeps it.
SettleInit ==
    /\ \E S \in Places(GridW + 1, GridH, MaxCells) : \E f \in [S -> DryStuff] :
          StartWith(GridW + 1, GridH, GridOf(GridW + 1, GridH, S, f))
    /\ g0 = m_grid

\* Ticks only, as in SpecTick, and main's loop keeps running: its steps
\* are taken again and again.  A step of TickNext is possible in every
\* state, so this is WF_vars(TickNext).
SpecSettle == SettleInit /\ [][TickNext]_vars /\ []<><<TickNext>>_vars

\* ------------------------------------------------------ the scenarios

SingleCell(w, h, x, y, c) ==
    [i \in 0..(w * h - 1) |-> IF i = y * w + x THEN c ELSE EmptyCell]

\* A Sand cell in the top row of an otherwise empty grid.
FallGrids(w, h) ==
    {SingleCell(w, h, x, 0, [type |-> Sand, soak |-> 0]) : x \in 0..(w - 1)}

\* A Water cell and a Sand cell at one of the offsets of TryWetSand from it.
WettingGrids(w, h) ==
    {[i \in 0..(w * h - 1) |->
         IF i = p[2] * w + p[1] THEN [type |-> Water, soak |-> 0]
         ELSE IF i = (p[2] + offsets[k][2]) * w + p[1] + offsets[k][1]
         THEN [type |-> Sand, soak |-> 0]
         ELSE EmptyCell] :
        <<p, k>> \in {q \in ((0..(w - 1)) \X (0..(h - 1))) \X (1..Len(offsets)) :
                        /\ q[1][1] + offsets[q[2]][1] \in 0..(w - 1)
                        /\ q[1][2] + offsets[q[2]][2] \in 0..(h - 1)}}

ScenInit ==
    /\ \E g \in FallGrids(GridW + 1, GridH + 2) \cup WettingGrids(GridW + 1, GridH + 2) :
          StartWith(GridW + 1, GridH + 2, g) /\ g0 = g

\* A tick, counted.
CountedTick == ticks < MaxTicks /\ TickStart /\ ticks' = ticks + 1

ScenNext == CountedTick \/ UpdateCell \/ QuietFrame

SpecScen == ScenInit /\ [][ScenNext]_vars

\* ------------------------------------------- direct calls of the grid


\* ---------------------------------------------- FindNearestEmpty, called

\* The materials a painted or wetted grid can hold, in a fixed order.
Fillers ==
    <<[type |-> Sand, soak |-> 0], [type |-> Water, soak |-> 0],
      [type |-> WetSand, soak |-> 1], [type |-> WetSand, soak |-> SOAK_THRESHOLD]>>

\* Any occupancy of the GridW x GridH grid: FindNearestEmpty tells Empty
\* from the rest only.
FindInit ==
    /\ \E S \in SUBSET (0..(GridW * GridH - 1)) :
          StartWith(GridW, GridH,
                    GridOf(GridW, GridH, S,
                           [i \in S |-> Fillers[(i % Len(Fillers)) + 1]]))
    /\ g0 = <<>>

\* sim.FindNearestEmpty(targetX, targetY, maxRadius) for targets on and
\* around the grid, as DisplaceSand's targets are.
CallFindNearestEmpty ==
    /\ pc = "gate"
    /\ pc' = "called"
    /\ \E targetX \in (-SearchRadius - 1)..(width + SearchRadius),
          targetY \in (-SearchRadius - 1)..(height + SearchRadius),
          maxRadius \in 0..SearchRadius :
          call' = [op |-> "FindNearestEmpty", x1 |-> targetX, y1 |-> targetY,
                   x2 |-> maxRadius, y2 |-> 0, pre |-> m_grid,
                   ret |-> FindNearestEmpty(Sim, targetX, targetY, maxRadius)]
    /\ UNCHANGED <<coupling, width, height, m_grid, scan, org, oob, wet, n0, tick0, seen,
                   again, fallen, ticks, g0>>

FindNext == CallFindNearestEmpty

SpecFind == FindInit /\ [][FindNext]_vars

OpsInit == StartAny(GridW, GridH, MaxCells) /\ g0 = <<>>

\* sim.Move(x1, y1, x2, y2) with any arguments.
CallMove ==
    /\ pc = "gate"
    /\ pc' = "called"
    /\ \E x1 \in -1..width, y1 \in -1..height, x2 \in -1..width, y2 \in -1..height :
          LET m == Move(Sim, x1, y1, x2, y2)
          IN  /\ Commit(m.s)
              /\ call' = [op |-> "Move", x1 |-> x1, y1 |-> y1, x2 |-> x2,
                          y2 |-> y2, pre |-> m_grid, ret |-> m.ret]
    /\ UNCHANGED <<coupling, width, height, scan, n0, tick0, seen, again, fallen, ticks, g0>>

OpsNext == CallMove

SpecOps == OpsInit /\ [][OpsNext]_vars

\* ------------------------------------- direct calls of TryWetSand

\* The indices of the cells of a w x h grid at the offsets from (x, y).
Near(w, h, x, y) ==
    {(y + offsets[k][2]) * w + x + offsets[k][1] :
        k \in {j \in 1..Len(offsets) : /\ x + offsets[j][1] \in 0..(w - 1)
                                       /\ y + offsets[j][2] \in 0..(h - 1)}}

\* Any w x h grid of a Water cell and at most n material cells at the
\* offsets from it.
StartWet(w, h, n) ==
    \E x \in 0..(w - 1), y \in 0..(h - 1) :
       \E S \in {T \in SUBSET Near(w, h, x, y) : Cardinality(T) <= n} :
          \E f \in [S -> Stuff] :
             StartWith(w, h, [i \in 0..(w * h - 1) |->
                                 IF i = y * w + x THEN [type |-> Water, soak |-> 0]
                                 ELSE IF i \in S THEN f[i] ELSE EmptyCell])

WetInit == StartWet(GridW + 1, GridH + 1, MaxCells) /\ g0 = <<>>

\* UpdateWater's call TryWetSand(x, y), at any Water cell of the grid.
CallTryWetSand ==
    /\ pc = "gate"
    /\ pc' = "called"
    /\ \E wx \in 0..(width - 1), wy \in 0..(height - 1) :
          /\ At(Sim, wx, wy).type = Water
          /\ LET t == TryWetSand(Sim, wx, wy)
             IN  /\ Commit(t.s)
                 /\ call' = [op |-> "TryWetSand", x1 |-> wx, y1 |-> wy, x2 |-> 0,
                             y2 |-> 0, pre |-> m_grid, ret |-> t.ret]
    /\ UNCHANGED <<coupling, width, height, scan, n0, tick0, seen, again, fallen, ticks, g0>>

WetNext == CallTryWetSand

SpecWet == WetInit /\ [][WetNext]_vars


\* ---------------------------------------------------- haptic coupling

\* HapticSystem::hapkitScale, in cells per metre.
hapkitScale == 500

\* The rail's half length 0.08f, in millimetres.
RailMax == 80

\* A distance d of half cells divided by hapkitScale, in millimetres.
ToMetres(d) == (d * 500) \div hapkitScale

\* A rail input of v millimetres times hapkitScale, in half cells.
ToCells(v) == (v * hapkitScale) \div 500

\* The clamp without its lower end.
ClampAbove(v, isNaN) == IF ~isNaN /\ v < RailMax THEN v ELSE RailMax

\* std::max(-0.08f, std::min(0.08f, v)).  Every comparison with a NaN is
\* false, so std::min(0.08f, NaN) is 0.08f.
Clamp(v, isNaN) ==
    LET least == IF ~isNaN /\ v < RailMax THEN v ELSE RailMax
    IN  IF -RailMax < least THEN least ELSE -RailMax


\* What one cell adds to GetResistance's total, in units of 0.02.
ResistanceOf(cell) ==
    IF cell.type = Sand THEN 5
    ELSE IF cell.type = WetSand THEN cell.soak + 5
    ELSE IF cell.type = Water THEN 1
    ELSE 0

\* GetResistance's loops from the cell of index k on: the in-bounds cells
\* within radius of (PX, PY).
RECURSIVE ResistanceFrom(_, _, _, _)
ResistanceFrom(s, PX, PY, k) ==
    IF k >= width * height THEN 0
    ELSE (IF InRadius(k % width, k \div width, PX, PY)
          THEN ResistanceOf(Get(s, k % width, k \div width)) ELSE 0)
         + ResistanceFrom(s, PX, PY, k + 1)

GetResistance(s, PX, PY) == ResistanceFrom(s, PX, PY, 0)

\* smoothedResistance * 0.8 + rawResistance * 0.2 as zero or more than
\* zero; a decaying value may underflow to zero.
Smoothed(smoothed, rawResistance) ==
    IF rawResistance > 0 THEN {1}
    ELSE IF smoothed = 0 THEN {0}
    ELSE {0, 1}

\* viscosity = 1 / (1 + smoothedResistance * frictionCoef), to the nearest
\* whole: 1 when nothing resists, 0 or 1 when something does (a resistance
\* below the float's precision still gives 1).
Viscosity(smoothed) == IF smoothed = 0 THEN {1} ELSE {0, 1}

\* One coordinate of diff * viscosity, kept to half cells.
Damped(diff, viscosity) == diff * viscosity

\* proxyPos += diff * viscosity
Approach(proxy, dev, viscosity) ==
    <<proxy[1] + Damped(dev[1] - proxy[1], viscosity),
      proxy[2] + Damped(dev[2] - proxy[2], viscosity)>>

\* forceVec = (proxyPos - devicePos) * -springK with springK = 0.5, in
\* quarters of a newton; shorter than 0.025 N it becomes zero.
ForceVec(proxy, dev) ==
    LET f == <<-(proxy[1] - dev[1]), -(proxy[2] - dev[2])>>
    IN  IF 100 * (f[1] * f[1] + f[2] * f[2]) < 1 THEN <<0, 0>> ELSE f

\* One coordinate of a position, by axis.
Along(axis, p) == IF axis = X_Axis THEN p[1] ELSE p[2]


\* currentForce1D taken from the spring in either mode.
Force1DAnyMode(mode, axis, proxy, dev) == Along(axis, ForceVec(proxy, dev))

\* currentForce1D after Update: 0.0f in the 2D mode, the axis' component
\* of forceVec in the 1D mode.
Force1D(mode, axis, proxy, dev) ==
    IF mode = Mode_1DOF THEN Along(axis, ForceVec(proxy, dev)) ELSE 0

\* anchorPos displaced along the axis by rawInputVal * hapkitScale.
OnRail(axis, anchor, val) ==
    IF axis = X_Axis THEN <<anchor[1] + ToCells(val), anchor[2]>>
    ELSE <<anchor[1], anchor[2] + ToCells(val)>>


\* Recenter that leaves the device and the rail input where they are.
RecenterAnchor(newCenter) ==
    /\ anchorPos' = newCenter
    /\ proxyPos' = newCenter
    /\ centre' = newCenter
    /\ UNCHANGED <<devicePos, rawInputVal, currentForce1D, currentMode, currentAxis,
                   smoothedResistance, updated>>

\* haptics.Recenter(newCenter)
Recenter(newCenter) ==
    /\ anchorPos' = newCenter
    /\ proxyPos' = newCenter
    /\ devicePos' = newCenter
    /\ rawInputVal' = 0
    /\ centre' = newCenter
    /\ UNCHANGED <<currentForce1D, currentMode, currentAxis, smoothedResistance, updated>>

\* haptics.Update(mousePos, rawInputMeters, isMouseInput, sim);
\* rawInputMeters is a NaN when isNaN.
HapticUpdate(mousePos, rawInputMeters, isNaN, isMouseInput) ==
    LET raw == IF isMouseInput
               THEN ToMetres(Along(currentAxis, mousePos) - Along(currentAxis, anchorPos))
               ELSE rawInputMeters
        val == Clamp(raw, isNaN /\ ~isMouseInput)
        dev == IF currentMode = Mode_2DOF THEN mousePos
               ELSE OnRail(currentAxis, anchorPos, val)
    IN  /\ devicePos' = dev
        /\ rawInputVal' = IF currentMode = Mode_2DOF THEN rawInputVal ELSE val
        /\ \E smoothed \in Smoothed(smoothedResistance,
                                    GetResistance(Sim, proxyPos[1], proxyPos[2])) :
              /\ smoothedResistance' = smoothed
              /\ \E viscosity \in Viscosity(smoothed) :
                    \E proxy \in {Approach(proxyPos, dev, viscosity)} :
                        /\ proxyPos' = proxy
                        /\ \E s \in {DisplaceSand(Stamp(Sim), proxy[1], proxy[2])} :
                              Commit(Stamp(s))
                        /\ currentForce1D' = Force1D(currentMode, currentAxis, proxy, dev)
        /\ updated' = currentMode
        /\ UNCHANGED <<anchorPos, currentMode, currentAxis, centre>>


\* How far off the rail's end the mouse is taken, in half cells.
RailFar == 2000

\* The mouse over the view, in half cells: at the centre of the grid's
\* last cell, or far along the axis from the anchor.
NearPoints == {<<2 * GridW - 1, 2 * GridH - 1>>}

MousePoints ==
    NearPoints \cup {IF currentAxis = X_Axis
                     THEN <<anchorPos[1] + RailFar, anchorPos[2]>>
                     ELSE <<anchorPos[1], anchorPos[2] + RailFar>>}

\* What the device reports as its position, in millimetres.
Readings == {-RailFar, 1}

\* The record of a call on haptics: its arguments and what held before.
Called(op, mousePos, rawInputMeters, isNaN, isMouseInput) ==
    [op |-> op, x1 |-> mousePos[1], y1 |-> mousePos[2], x2 |-> rawInputMeters,
     y2 |-> 0,
     pre |-> [mode |-> currentMode, axis |-> currentAxis, anchor |-> anchorPos,
              isNaN |-> isNaN, isMouseInput |-> isMouseInput],
     ret |-> FALSE]

\* main: G pressed over the view.
PressG ==
    \E newCenter \in NearPoints :
        /\ Recenter(newCenter)
        /\ call' = Called("Recenter", newCenter, 0, FALSE, FALSE)
        /\ UNCHANGED <<device, loop, width, height, m_grid, pc, scan, org, oob, wet, n0, tick0,
                       seen, again, fallen, ticks, g0>>

\* main: the radio buttons "1D (Hapkit/Rail)" and "2D (Mouse/Free)".
SetMode ==
    \E mode \in {Mode_1DOF, Mode_2DOF} :
        /\ currentMode' = mode
        /\ call' = Called("SetMode", <<0, 0>>, 0, FALSE, FALSE)
        /\ UNCHANGED <<anchorPos, devicePos, proxyPos, rawInputVal, currentForce1D,
                       currentAxis, smoothedResistance, centre, updated>>
        /\ UNCHANGED <<device, loop, width, height, m_grid, pc, scan, org, oob, wet, n0, tick0,
                       seen, again, fallen, ticks, g0>>

\* main: the radio buttons "X-Axis" and "Y-Axis", shown in the 1D mode.
SetAxis ==
    /\ currentMode = Mode_1DOF
    /\ \E axis \in {X_Axis, Y_Axis} :
          /\ currentAxis' = axis
          /\ call' = Called("SetAxis", <<0, 0>>, 0, FALSE, FALSE)
    /\ UNCHANGED <<anchorPos, devicePos, proxyPos, rawInputVal, currentForce1D,
                   currentMode, smoothedResistance, centre, updated>>
    /\ UNCHANGED <<device, loop, width, height, m_grid, pc, scan, org, oob, wet, n0, tick0,
                   seen, again, fallen, ticks, g0>>

\* The grid is Update's sim; the rest of the frame is left out.
UpdateWith(mousePos, rawInputMeters, isNaN, isMouseInput) ==
    /\ HapticUpdate(mousePos, rawInputMeters, isNaN, isMouseInput)
    /\ call' = Called("Update", mousePos, rawInputMeters, isNaN, isMouseInput)
    /\ UNCHANGED <<device, loop, width, height, pc, scan, n0, tick0, seen, again,
                   fallen, ticks, g0>>

\* main: haptics.Update(mouseGridPos, 0.0f, true, sim)
UpdateByMouse == \E mouseGridPos \in MousePoints : UpdateWith(mouseGridPos, 0, FALSE, TRUE)

\* main: haptics.Update(glm::vec2(0,0), device.GetPositionMeters(), false, sim)
UpdateByDevice ==
    \/ \E meters \in Readings : UpdateWith(<<0, 0>>, meters, FALSE, FALSE)
    \/ UpdateWith(<<0, 0>>, 0, TRUE, FALSE)

\* main: haptics.Update(haptics.devicePos, 0.0f, false, sim)
UpdateIdle == UpdateWith(devicePos, 0, FALSE, FALSE)

\* An empty grid or sand in its last cell, haptics as constructed.
HapticInit ==
    /\ \E S \in {{}, {GridW * GridH - 1}} :
          StartWith(GridW, GridH,
                    GridOf(GridW, GridH, S, [i \in S |-> [type |-> Sand, soak |-> 0]]))
    /\ g0 = <<>>

HapticNext ==
    \/ PressG
    \/ SetMode
    \/ SetAxis
    \/ UpdateByMouse
    \/ UpdateByDevice
    \/ UpdateIdle

SpecHaptic == HapticInit /\ [][HapticNext]_vars


\* ------------------------------------------------ the loop and the device

\* What device.Connect() can come to: the Serial constructor throws, it
\* yields a port that is not open, flushInput throws on the open port, or
\* all succeeds.
ConnectOutcomes == {"throws", "shut", "flushThrows", "open"}

\* m_serial after device.Connect().
ConnectSerial(outcome) ==
    IF outcome = "throws" THEN m_serial
    ELSE IF outcome = "shut" THEN "shut"
    ELSE "open"

\* device.Connect(); its return value is ConnectReturn.
Connect(outcome) ==
    /\ m_serial' = ConnectSerial(outcome)
    /\ connected' = (connected \/ outcome \in {"flushThrows", "open"})
    /\ wire' = IF outcome \in {"flushThrows", "open"} THEN "none" ELSE wire
    /\ down' = IF outcome \in {"flushThrows", "open"} THEN "no" ELSE down
    /\ late' = late
    /\ m_currentPositionMeters' =
          IF outcome \in {"flushThrows", "open"} THEN 0 ELSE m_currentPositionMeters
    /\ UNCHANGED <<m_lastSentForce, m_lastSendTime, sync>>

ConnectReturn(outcome) == outcome = "open"

\* What device.Disconnect() can come to on an open port: the write of
\* "F 0.0\n" throws, close throws after it, or neither does.
DisconnectOutcomes == {"writeThrows", "closeThrows", "closed"}

\* Disconnect that closes the port without writing to it.
DisconnectSilent(outcome) ==
    /\ wire' = wire
    /\ down' = IF m_serial = "open" THEN "closed" ELSE down
    /\ late' = late
    /\ m_serial' = "null"
    /\ connected' = FALSE
    /\ UNCHANGED <<m_currentPositionMeters, m_lastSentForce, m_lastSendTime, sync>>

\* device.Disconnect(): on an open port write "F 0.0\n", then close, any
\* exception swallowed; then m_serial.reset(), which releases the port in
\* any case, and connected = false.
Disconnect(outcome) ==
    /\ wire' = IF m_serial = "open" /\ outcome # "writeThrows" THEN "F 0.0" ELSE wire
    /\ down' = IF m_serial # "open" THEN down
               ELSE IF outcome = "writeThrows" THEN "dropped"
               ELSE "closed"
    /\ late' = late
    /\ m_serial' = "null"
    /\ connected' = FALSE
    /\ UNCHANGED <<m_currentPositionMeters, m_lastSentForce, m_lastSendTime, sync>>

\* device.Sync(force), for what reaches the port: nothing when not
\* connected; else the write of the force when it has changed or is due
\* (sends), which may throw (throws).  The reads and the private fields
\* behind sends are followed in SpecSync, step by step, and not here.
Sync(sends, throws) ==
    LET written == connected /\ m_serial # "null" /\ sends /\ ~throws
    IN  /\ wire' = IF written THEN "F" ELSE wire
        /\ late' = (late \/ (written /\ down # "no"))
        /\ UNCHANGED <<connected, m_serial, down, m_currentPositionMeters,
                       m_lastSentForce, m_lastSendTime, sync>>

\* A gate that lets every iteration tick.
TickDueAlways(accumulated, delay) == TRUE

\* timeAccumulator >= sim.tickDelayMs
TickDue(accumulated, delay) == accumulated >= delay


\* A grid of one column, empty, and everything as constructed.
LoopInit == StartWith(1, GridH, EmptyGrid(1, GridH)) /\ g0 = <<>>

\* main: an iteration begins; DeltaTime is added to timeAccumulator and
\* sim.Update() starts if the sum has reached sim.tickDelayMs.
LoopGate ==
    /\ pc = "gate"
    /\ \E DeltaTime \in DeltaTimes :
          LET accumulated == timeAccumulator + DeltaTime
          IN  /\ timeAccumulator' = accumulated
              /\ frame' = [NoFrame EXCEPT !.began = TRUE,
                                          !.due = (accumulated >= tickDelayMs)]
              /\ pc' = IF TickDue(accumulated, tickDelayMs) THEN "tick" ELSE "ui"
    /\ scan' = 0
    /\ Commit([Stamp(Sim) EXCEPT !.wet = 0])
    /\ UNCHANGED <<haptics, device, tickDelayMs, simulateInput, width, height, n0,
                   tick0, seen, again, fallen, ticks, g0, call>>

\* One iteration of Update's inner loop; after the last one,
\* timeAccumulator = 0.0f.
LoopTick ==
    /\ pc = "tick"
    /\ \E r \in {0, 1} : Commit(UpdateAt(Sim, CX, CY, r))
    /\ IF scan + 1 >= width * height
       THEN /\ pc' = "ui"
            /\ scan' = 0
            /\ timeAccumulator' = 0
            /\ frame' = [frame EXCEPT !.ticks = @ + 1]
       ELSE /\ pc' = "tick"
            /\ scan' = scan + 1
            /\ UNCHANGED <<timeAccumulator, frame>>
    /\ UNCHANGED <<haptics, device, tickDelayMs, simulateInput, width, height, n0,
                   tick0, seen, again, fallen, ticks, g0, call>>

\* The checkbox "Drive w/ Mouse" on the value b, clicked or not.
Checkbox(toggled, b) == IF toggled THEN ~b ELSE b

\* main: the button "Connect" or "Disconnect", by device.connected, and
\* the checkbox after it.
ClickButton(toggled) ==
    IF connected
    THEN \E outcome \in DisconnectOutcomes :
            Disconnect(outcome) /\ simulateInput' = Checkbox(toggled, TRUE)
    ELSE \E outcome \in ConnectOutcomes :
            /\ Connect(outcome)
            /\ simulateInput' =
                  Checkbox(toggled, IF ConnectReturn(outcome) THEN FALSE ELSE simulateInput)

\* main: the Controls window: the "Sim Speed (ms)" slider, the button, the
\* checkbox "Drive w/ Mouse" and "Reset Sand"; the mode and axis radio
\* buttons are not clicked here (SetMode and SetAxis are those clicks).
LoopControls ==
    /\ pc = "ui"
    /\ pc' = "interact"
    /\ tickDelayMs' \in Delays
    /\ \E toggled \in BOOLEAN :
          \/ ClickButton(toggled)
          \/ UNCHANGED device /\ simulateInput' = Checkbox(toggled, simulateInput)
    /\ \E reset \in BOOLEAN :
          Commit([Stamp(IF reset THEN Clear(Sim) ELSE Sim) EXCEPT !.wet = 0])
    /\ UNCHANGED <<haptics, timeAccumulator, frame, width, height, scan, n0, tick0,
                   seen, again, fallen, ticks, g0, call>>

\* main: the simulation view, hovered or not; a pressed mouse button over
\* it paints the selected material at the cell under the mouse.  G is not
\* pressed here (PressG is that key).
LoopPaint ==
    /\ pc = "interact"
    /\ pc' = "haptics"
    /\ \E hovered \in BOOLEAN :
          /\ frame' = [frame EXCEPT !.hovered = hovered]
          /\ \/ UNCHANGED <<m_grid, org, oob, wet>>
             \/ /\ hovered
                /\ \E x \in -1..width, y \in -1..height, type \in {Sand, WetSand, Water} :
                      LET s == Stamp(Set(Sim, x, y, type, PaintSoak(type)))
                      IN  Material(s.grid) <= MaxCells /\ Commit(s)
    /\ UNCHANGED <<haptics, device, timeAccumulator, tickDelayMs, simulateInput,
                   width, height, scan, n0, tick0, seen, again, fallen, ticks, g0, call>>

\* The call of haptics.Update an iteration makes, by its branch.
CallSite ==
    IF frame.hovered
    THEN IF simulateInput THEN "mouse" ELSE "device"
    ELSE IF ~simulateInput /\ connected THEN "device, away" ELSE "away"

\* main: the rest of the view: device.Sync if the device is connected,
\* then haptics.Update by the branch taken, with its displacement pass.
LoopUpdate ==
    /\ pc = "haptics"
    /\ pc' = "gate"
    /\ IF connected
       THEN \E sends \in BOOLEAN, throws \in BOOLEAN : Sync(sends, throws)
       ELSE UNCHANGED device
    /\ \/ /\ CallSite = "mouse"
          /\ \E mouseGridPos \in NearPoints : HapticUpdate(mouseGridPos, 0, FALSE, TRUE)
       \/ /\ CallSite \in {"device", "device, away"}
          /\ \E meters \in Readings : HapticUpdate(<<0, 0>>, meters, FALSE, FALSE)
       \/ /\ CallSite = "away"
          /\ HapticUpdate(devicePos, 0, FALSE, FALSE)
    /\ frame' = [frame EXCEPT !.updates = @ + 1, !.passes = @ + 1, !.site = CallSite]
    /\ UNCHANGED <<timeAccumulator, tickDelayMs, simulateInput, width,
                   height, scan, n0, tick0, seen, again, fallen, ticks, g0, call>>

\* main: the window should close; the loop ends and ~HapticDevice() calls
\* Disconnect.
LoopExit ==
    /\ pc = "gate"
    /\ pc' = "done"
    /\ \E outcome \in DisconnectOutcomes : Disconnect(outcome)
    /\ UNCHANGED <<haptics, loop, width, height, m_grid, scan, org, oob, wet, n0,
                   tick0, seen, again, fallen, ticks, g0, call>>

LoopNext ==
    \/ LoopGate
    \/ LoopTick
    \/ LoopControls
    \/ LoopPaint
    \/ LoopUpdate
    \/ LoopExit

SpecLoop == LoopInit /\ [][LoopNext]_vars

\* --------------------------------------------- DisplaceSand, cell by cell

\* A grid of one row or a GridW x GridH grid, in any occupancy, full
\* included; the proxy is where the pass finds it.
PushInit ==
    /\ \E shape \in {<<GridW + 1, 1>>, <<GridW, GridH>>} :
          \E S \in SUBSET (0..(shape[1] * shape[2] - 1)) :
              StartWith(shape[1], shape[2],
                        GridOf(shape[1], shape[2], S,
                               [i \in S |-> Fillers[(i % Len(Fillers)) + 1]]))
    /\ g0 = <<>>

\* The number of cells of DisplaceSand's box: (2 * r + 1) squared.
BoxCells == (2 * radius + 1) * (2 * radius + 1)

\* The cell of the box DisplaceSand's loops reach k-th, rows first.
BoxCell(k) ==
    <<TruncHalf(proxyPos[1]) - radius + (k % (2 * radius + 1)),
      TruncHalf(proxyPos[2]) - radius + (k \div (2 * radius + 1))>>

\* DisplaceSand is entered with the proxy on or about the grid.
BeginPass ==
    /\ pc = "gate"
    /\ pc' = "push"
    /\ scan' = 0
    /\ proxyPos' \in (-2..(2 * width + 1)) \X (-2..(2 * height + 1))
    /\ g0' = m_grid
    /\ Commit(Stamp(Sim))
    /\ UNCHANGED <<anchorPos, devicePos, rawInputVal, currentForce1D, currentMode,
                   currentAxis, smoothedResistance, centre, updated>>
    /\ UNCHANGED <<device, loop, width, height, n0, tick0, seen, again, fallen,
                   ticks, call>>

\* One iteration of DisplaceSand's inner loop.
PushCell ==
    /\ pc = "push"
    /\ Commit(DisplaceAt(Sim, BoxCell(scan)[1], BoxCell(scan)[2],
                         proxyPos[1], proxyPos[2]))
    /\ scan' = scan + 1
    /\ pc' = IF scan + 1 >= BoxCells THEN "pushed" ELSE "push"
    /\ UNCHANGED <<coupling, width, height, n0, tick0, seen, again, fallen, ticks,
                   g0, call>>

PushNext ==
    \/ BeginPass
    \/ PushCell

SpecPush == PushInit /\ [][PushNext]_vars

\* ------------------------------------------------- Sync, step by step

\* The clock is followed up to MaxClock units of 25 ms.
MaxClock == 4

\* int maxReads = 50
maxReads == 50

\* The calls of Sync made inside a try block whose catch (...) is empty.
GuardedReads == {"available", "readline", "stof"}

Guarded == {"available", "readline", "stof", "write"}

\* An exception thrown by the call leaves Sync.
Escapes(site) == site \notin Guarded

\* The forces Sync is called with, in millinewtons: two of them within
\* 0.005 N of the one between them.
Forces == {0, 5, 10}

\* The positions the device's lines report, in millimetres.
Positions == {0, 1}

\* std::abs(forceOutputNewtons - m_lastSentForce) > 0.005f ||
\* (currentTime - m_lastSendTime) > 0.05
SendDue(forceOutputNewtons, currentTime) ==
    \/ Abs(forceOutputNewtons - m_lastSentForce) > 5
    \/ currentTime - m_lastSendTime > 2

\* What one evaluation of the read loop's condition and body can come to:
\* available() throws or yields false; the cap is reached; readline
\* throws; the line is a position line that stof parses, or one on which
\* stof throws, or a line that is passed over (not longer than 4, not
\* ended by a newline or not beginning with P).
ReadOutcomes ==
    {"availableThrows", "none", "capped", "readlineThrows", "position",
     "parseThrows", "ignored"}

\* Sync leaves by an exception.
Raise == [sync EXCEPT !.at = "returned", !.raised = TRUE]

\* device.Sync(forceOutputNewtons) is entered, one or two units of time
\* after the call before: the test of connected and m_serial.
SyncCall ==
    /\ sync.at \in {"idle", "returned"}
    /\ \E forceOutputNewtons \in Forces, elapsed \in {1, 2} :
          /\ sync.now + elapsed <= MaxClock
          /\ sync' = [sync EXCEPT
                         !.at = IF ~connected \/ m_serial = "null"
                                THEN "returned" ELSE "reading",
                         !.force = forceOutputNewtons,
                         !.maxReads = maxReads,
                         !.reads = 0,
                         !.last = "none",
                         !.now = @ + elapsed,
                         !.attempted = FALSE]
    /\ UNCHANGED <<connected, m_serial, wire, down, late, m_currentPositionMeters,
                   m_lastSentForce, m_lastSendTime>>
    /\ UNCHANGED <<haptics, loop, width, height, m_grid, pc, scan, org, oob, wet, n0,
                   tick0, seen, again, fallen, ticks, g0, call>>

\* The read loop's condition and, when it holds, its body, once.
SyncRead ==
    /\ sync.at = "reading"
    /\ \E outcome \in ReadOutcomes, line \in Positions :
          LET read == [sync EXCEPT !.maxReads = @ - 1, !.reads = @ + 1,
                                   !.last = outcome]
          IN  CASE outcome = "availableThrows" ->
                     /\ sync' = IF Escapes("available") THEN Raise
                                ELSE [sync EXCEPT !.at = "writing", !.last = outcome]
                     /\ UNCHANGED m_currentPositionMeters
                [] outcome = "none" ->
                     /\ sync' = [sync EXCEPT !.at = "writing", !.last = outcome]
                     /\ UNCHANGED m_currentPositionMeters
                [] outcome = "capped" ->
                     /\ sync.maxReads <= 0
                     /\ sync' = [sync EXCEPT !.at = "writing", !.maxReads = @ - 1,
                                             !.last = outcome]
                     /\ UNCHANGED m_currentPositionMeters
                [] outcome = "readlineThrows" ->
                     /\ sync.maxReads > 0
                     /\ sync' = IF Escapes("readline") THEN Raise
                                ELSE [read EXCEPT !.at = "writing"]
                     /\ UNCHANGED m_currentPositionMeters
                [] outcome = "position" ->
                     /\ sync.maxReads > 0
                     /\ sync' = read
                     /\ m_currentPositionMeters' = line
                [] outcome = "parseThrows" ->
                     /\ sync.maxReads > 0
                     /\ sync' = IF Escapes("stof") THEN Raise ELSE read
                     /\ UNCHANGED m_currentPositionMeters
                [] outcome = "ignored" ->
                     /\ sync.maxReads > 0
                     /\ sync' = read
                     /\ UNCHANGED m_currentPositionMeters
    /\ UNCHANGED <<connected, m_serial, wire, down, late, m_lastSentForce,
                   m_lastSendTime>>
    /\ UNCHANGED <<haptics, loop, width, height, m_grid, pc, scan, org, oob, wet, n0,
                   tick0, seen, again, fallen, ticks, g0, call>>

\* The rest of Sync: the write of the force when it has changed or is due,
\* which may throw, and the return.
SyncWrite ==
    /\ sync.at = "writing"
    /\ \E throws \in BOOLEAN :
          LET sends == SendDue(sync.force, sync.now)
              written == sends /\ ~throws
          IN  /\ m_lastSentForce' = IF written THEN sync.force ELSE m_lastSentForce
              /\ m_lastSendTime' = IF written THEN sync.now ELSE m_lastSendTime
              /\ wire' = IF written THEN "F" ELSE wire
              /\ late' = (late \/ (written /\ down # "no"))
              /\ sync' = [sync EXCEPT
                             !.at = "returned",
                             !.attempted = sends,
                             !.failed = sends /\ throws,
                             !.failedForce = IF sends /\ throws THEN sync.force ELSE 0,
                             !.retried = sync.failed /\ sends,
                             !.raised = sends /\ throws /\ Escapes("write")]
    /\ UNCHANGED <<connected, m_serial, down, m_currentPositionMeters>>
    /\ UNCHANGED <<haptics, loop, width, height, m_grid, pc, scan, org, oob, wet, n0,
                   tick0, seen, again, fallen, ticks, g0, call>>

\* main: the button, between two frames.
SyncButton ==
    /\ sync.at \in {"idle", "returned"}
    /\ IF connected
       THEN \E outcome \in DisconnectOutcomes : Disconnect(outcome)
       ELSE \E outcome \in ConnectOutcomes : Connect(outcome)
    /\ UNCHANGED <<haptics, loop, width, height, m_grid, pc, scan, org, oob, wet, n0,
                   tick0, seen, again, fallen, ticks, g0, call>>

SyncInit == StartWith(GridW, GridH, EmptyGrid(GridW, GridH)) /\ g0 = <<>>

SyncNext ==
    \/ SyncCall
    \/ SyncRead
    \/ SyncWrite
    \/ SyncButton

SpecSync == SyncInit /\ [][SyncNext]_vars

\* ------------------------------------------------------------- claims

\* C1: all through a tick, and so at its end, the number of non-Empty
\* cells is the number the tick started with minus the number of wetting
\* reactions that cleared their water cell so far: the Move and Swap steps
\* of the three rules neither create nor destroy material.
C1_Conservation ==
    pc \in {"tick", "ui"} => Material(m_grid) = n0 - wet

\* A tick has ended in which a cell moved and a reaction consumed water.
C1_Witness ==
    /\ pc = "ui"
    /\ n0 = 2
    /\ wet = 1
    /\ \E j \in DOMAIN org : org[j] # NoOrg /\ org[j] # j

\* C2: no step leaves a WetSand cell with a soak above SOAK_THRESHOLD; in
\* every step of a tick and in every displacement pass each WetSand cell is
\* still there afterwards, as WetSand, with a soak that is not lower; and
\* its soak is higher only by one, only in a tick step at a Water cell
\* whose TryWetSand reaction cleared that water.
C2_SoakStep ==
    /\ \A j \in DOMAIN m_grid' :
          m_grid'[j].type = WetSand => m_grid'[j].soak <= SOAK_THRESHOLD
    /\ pc \in {"tick", "haptics"} =>
          \A i \in DOMAIN m_grid :
             m_grid[i].type = WetSand =>
                \E j \in DOMAIN m_grid' :
                   /\ org'[j] = IF pc = "tick" THEN org[i] ELSE i
                   /\ m_grid'[j].type = WetSand
                   /\ \/ m_grid'[j].soak = m_grid[i].soak
                      \/ /\ m_grid'[j].soak = m_grid[i].soak + 1
                         /\ pc = "tick"
                         /\ At(Sim, CX, CY).type = Water
                         /\ wet' = wet + 1

C2_Soak == [][C2_SoakStep]_vars

\* In a tick that started with a WetSand cell and a Water cell, the WetSand
\* cell fell and then absorbed the water, reaching the threshold.
C2_Witness ==
    /\ pc \in {"tick", "ui"}
    /\ n0 = 2
    /\ wet = 1
    /\ \E j \in DOMAIN m_grid :
          /\ m_grid[j] = [type |-> WetSand, soak |-> SOAK_THRESHOLD]
          /\ org[j] # j

\* The coordinates next to the grid on every side, and the grid's own.
Around == (-1..width) \X (-1..height)

\* C3: the vector is never indexed outside its width * height cells, the
\* cell Update's loops are at is a cell of the grid, and at every
\* coordinate outside the grid, whatever the grid holds, Get gives the
\* boundary cell (Sand, soak 0) and Set leaves every cell as it is.
C3_Bounds ==
    /\ ~oob
    /\ pc = "tick" => InRange(CX, CY)
    /\ \A p \in Around :
          ~InRange(p[1], p[2]) =>
             /\ Get(Sim, p[1], p[2]) = m_boundaryCell
             /\ \A type \in MaterialType :
                   Set(Sim, p[1], p[2], type, PaintSoak(type)).grid = m_grid

\* A displacement pass has just pushed a cell along the edge of a full
\* grid: its box and its targets reached beyond the grid.
C3_Witness ==
    /\ pc = "gate"
    /\ Material(m_grid) = MaxCells
    /\ \E j \in DOMAIN org : org[j] # NoOrg /\ org[j] # j

\* C4: after a call Move(x1, y1, x2, y2) on the grid pre: if an endpoint
\* is outside the grid or the destination cell is not Empty, the call
\* returned false and the grid is pre; otherwise it returned true, the
\* destination holds the material and soak the source had, the source is
\* Empty with soak 0 and every other cell is as in pre.
C4_Move ==
    call.op = "Move" =>
       LET src == call.y1 * width + call.x1
           dst == call.y2 * width + call.x2
           fails == \/ ~InRange(call.x1, call.y1)
                    \/ ~InRange(call.x2, call.y2)
                    \/ call.pre[dst].type # Empty
       IN  IF fails
           THEN call.ret = FALSE /\ m_grid = call.pre
           ELSE /\ call.ret = TRUE
                /\ m_grid[dst] = call.pre[src]
                /\ m_grid[src] = [type |-> Empty, soak |-> 0]
                /\ \A i \in DOMAIN m_grid :
                      i \notin {src, dst} => m_grid[i] = call.pre[i]

\* A Move of a WetSand cell of soak 1 to another, Empty, cell succeeded
\* on a grid that holds a second material cell.
C4_Witness ==
    /\ call.op = "Move"
    /\ call.ret = TRUE
    /\ <<call.x1, call.y1>> # <<call.x2, call.y2>>
    /\ Material(call.pre) = 2
    /\ call.pre[call.y1 * width + call.x1] = [type |-> WetSand, soak |-> 1]

\* C5: the cell Update's loops are about to process is not one that a
\* step of this tick took to a lower row, and all through a tick, and so
\* at its end, no material cell is more than one row below the row it
\* was in when the tick started.
C5_SingleFall ==
    /\ pc = "tick" => (org[GetIndex(CX, CY)] = NoOrg \/ org[GetIndex(CX, CY)] \notin fallen)
    /\ pc \in {"tick", "ui"} =>
          \A j \in DOMAIN org :
             org[j] # NoOrg => Row(j) - Row(org[j]) <= 1

\* A tick has ended in which two cells fell, each by one row.
C5_Witness ==
    /\ pc = "ui"
    /\ Cardinality(fallen) = 2
    /\ \A j \in DOMAIN org :
          org[j] # NoOrg => (Row(j) = Row(org[j]) + 1 /\ org[j] \in fallen)

\* The cell at (x, y) is a cell of the grid and is Empty.
EmptyAt(x, y) == InRange(x, y) /\ m_grid[GetIndex(x, y)].type = Empty

\* The step moved the material at (CX, CY) to exactly one of the cells
\* (xa, y) and (xb, y), both Empty before: the other one is still Empty
\* and so is (CX, CY).
ExactlyOne(xa, xb, y) ==
    \E d \in {<<xa, xb>>, <<xb, xa>>} :
       /\ m_grid'[GetIndex(d[1], y)] = m_grid[GetIndex(CX, CY)]
       /\ m_grid'[GetIndex(d[2], y)].type = Empty
       /\ m_grid'[GetIndex(CX, CY)].type = Empty

\* C6: when Update's loops process a Sand cell whose cell below is neither
\* Empty nor Water, or a Water cell that TryWetSand does not consume and
\* whose cell below is not Empty, and both cells diagonally below are
\* Empty, the step moves the material to exactly one of the two; and when
\* they process a Water cell that TryWetSand does not consume, with no
\* Empty cell below or diagonally below and both side neighbours Empty,
\* the step moves it to exactly one of the two side neighbours.
C6_TieBreakStep ==
    pc = "tick" =>
       LET type == m_grid[GetIndex(CX, CY)].type
           flows == type = Water /\ ~TryWetSand(Sim, CX, CY).ret
           blocked == IF type = Sand
                      THEN Get(Sim, CX, CY + 1).type \notin {Empty, Water}
                      ELSE flows /\ ~EmptyAt(CX, CY + 1)
           diagonals == EmptyAt(CX - 1, CY + 1) /\ EmptyAt(CX + 1, CY + 1)
           noneBelow == /\ ~EmptyAt(CX, CY + 1)
                        /\ ~EmptyAt(CX - 1, CY + 1)
                        /\ ~EmptyAt(CX + 1, CY + 1)
           sides == EmptyAt(CX - 1, CY) /\ EmptyAt(CX + 1, CY)
       IN  /\ (blocked /\ diagonals) => ExactlyOne(CX - 1, CX + 1, CY + 1)
           /\ (flows /\ noneBelow /\ sides) => ExactlyOne(CX - 1, CX + 1, CY)

C6_TieBreak == [][C6_TieBreakStep]_vars

\* C7: when Update's loops process a Water cell, in any row, that
\* TryWetSand does not consume and that has no Empty cell below or
\* diagonally below, the step moves the water into a side neighbour that
\* was Empty if there is one, and leaves the grid as it is if there is
\* none.
C7_SpreadStep ==
    (/\ pc = "tick"
     /\ m_grid[GetIndex(CX, CY)].type = Water
     /\ ~TryWetSand(Sim, CX, CY).ret
     /\ ~EmptyAt(CX, CY + 1)
     /\ ~EmptyAt(CX - 1, CY + 1)
     /\ ~EmptyAt(CX + 1, CY + 1)) =>
       LET free == {x \in {CX - 1, CX + 1} : EmptyAt(x, CY)}
       IN  IF free = {}
           THEN m_grid' = m_grid
           ELSE \E x \in free :
                   /\ m_grid'[GetIndex(x, CY)] = m_grid[GetIndex(CX, CY)]
                   /\ m_grid'[GetIndex(CX, CY)].type = Empty

C7_Spread == [][C7_SpreadStep]_vars

\* The scenario the run started from: where its Water cell and its Sand
\* cell are, and the offset of the Sand cell from the Water cell.
IsPair == g0 \in WettingGrids(width, height)

WaterAt == CHOOSE i \in DOMAIN g0 : g0[i].type = Water

SandAt == CHOOSE i \in DOMAIN g0 : g0[i].type = Sand

Offset == <<Col(SandAt) - Col(WaterAt), Row(SandAt) - Row(WaterAt)>>

\* The first tick of the run has just ended.
AfterOneTick == pc = "ui" /\ ticks = 1

\* The row a cell of row y is in after falling one row, if it can.
OneDown(y) == IF y + 1 < height THEN y + 1 ELSE y

\* C8, as stated: a Water cell directly above a Sand cell, alone on the
\* grid, have swapped rows after one tick.
C8_Swapped ==
    (IsPair /\ Offset = <<0, 1>> /\ AfterOneTick) =>
       m_grid = [g0 EXCEPT ![WaterAt] = g0[SandAt], ![SandAt] = g0[WaterAt]]

\* C8, amended: from a Water cell directly above a Sand cell, alone on the
\* grid, one tick leaves no Water and a single material cell: WetSand of
\* soak 1 in the same column, one row below the row the Sand was in, or in
\* that row if it is the bottom row.
C8_Wetted ==
    (IsPair /\ Offset = <<0, 1>> /\ AfterOneTick) =>
       m_grid = SingleCell(width, height, Col(SandAt), OneDown(Row(SandAt)),
                           [type |-> WetSand, soak |-> 1])

\* The tick ended for a Water cell above a Sand cell that had room to
\* fall: the sand fell and the water wetted it from two rows above.
C8_Witness ==
    /\ IsPair
    /\ Offset = <<0, 1>>
    /\ AfterOneTick
    /\ Row(SandAt) + 1 < height
    /\ wet = 1
    /\ org[SandAt + width] = SandAt

\* C9, as stated: a Water cell and a Sand cell at one of the nine offsets
\* from it, alone on the grid; after one tick the sand cell is WetSand of
\* soak 1 and the cell the water was in is Empty.
C9_AlwaysWetted ==
    (IsPair /\ AfterOneTick) =>
       /\ \E j \in DOMAIN m_grid :
             org[j] = SandAt /\ m_grid[j] = [type |-> WetSand, soak |-> 1]
       /\ m_grid[WaterAt].type = Empty

\* The Sand cell is diagonally below or two rows below the Water cell and
\* not in the bottom row: it falls out of the water's reach first.
OutOfReach ==
    /\ Offset \in {<<1, 1>>, <<-1, 1>>, <<0, 2>>}
    /\ Row(SandAt) + 1 < height

\* C9, amended: after one tick the sand cell is WetSand of soak 1, one row
\* lower if it was not in the bottom row, and no Water is left, unless the
\* Sand cell was out of reach: then it is still Sand, one row lower, and
\* the Water cell is one row lower too.  The cell the water was in is
\* Empty, except that for offset (0, -1) the wetted sand has fallen into
\* it.
C9_Wetted ==
    (IsPair /\ AfterOneTick) =>
       LET sandNow == Col(SandAt) + width * OneDown(Row(SandAt))
           waterNow == WaterAt + width
       IN  IF OutOfReach
           THEN m_grid = [i \in DOMAIN g0 |->
                             IF i = sandNow THEN g0[SandAt]
                             ELSE IF i = waterNow THEN g0[WaterAt]
                             ELSE EmptyCell]
           ELSE /\ m_grid = SingleCell(width, height, Col(SandAt),
                                       OneDown(Row(SandAt)),
                                       [type |-> WetSand, soak |-> 1])
                /\ org[sandNow] = SandAt
                /\ (m_grid[WaterAt].type = Empty) <=> (Offset # <<0, -1>>)

\* The tick ended for a Sand cell right above the Water cell: it was
\* wetted and fell into the cell the water was in.
C9_Witness ==
    /\ IsPair
    /\ Offset = <<0, -1>>
    /\ AfterOneTick
    /\ wet = 1
    /\ m_grid[WaterAt] = [type |-> WetSand, soak |-> 1]
    /\ org[WaterAt] = SandAt

\* The run started from a single Sand cell in the top row.
IsFall == g0 \in FallGrids(width, height)

\* The grid with that Sand cell k rows lower, the bottom row at most.
SandDown(k) ==
    SingleCell(width, height, Col(SandAt),
               IF k < height - 1 THEN k ELSE height - 1, g0[SandAt])

\* C10: a single Sand cell at (x, 0) on an otherwise empty grid is at
\* (x, k) after k ticks for k <= height - 1, at (x, height - 1) after any
\* more ticks, and once it rests there the steps of a tick leave the grid
\* as it is.
C10_Fall ==
    IsFall =>
       /\ pc \in {"gate", "ui"} => m_grid = SandDown(ticks)
       /\ (pc = "tick" /\ ticks - 1 >= height - 1) => m_grid = SandDown(ticks)

\* The Sand cell rests in the bottom row after more ticks than it takes
\* to get there.
C10_Witness ==
    /\ IsFall
    /\ pc = "ui"
    /\ ticks = MaxTicks
    /\ ticks > height - 1
    /\ m_grid[Col(SandAt) + width * (height - 1)].type = Sand

\* C11: in every state the frame loop reaches from the grid Resize
\* leaves, by paint, ticks, displacement passes and Clear, every Empty
\* cell has soak 0.
C11_EmptySoak ==
    \A i \in DOMAIN m_grid : m_grid[i].type = Empty => m_grid[i].soak = 0

\* A tick has ended in which a Sand cell fell, leaving its cell Empty,
\* and was wetted where it landed, the water's cell left Empty too.
C11_Witness ==
    /\ pc = "ui"
    /\ n0 = 2
    /\ wet = 1
    /\ \E j \in DOMAIN m_grid :
          /\ m_grid[j] = [type |-> WetSand, soak |-> 1]
          /\ org[j] # j
          /\ m_grid[org[j]] = [type |-> Empty, soak |-> 0]

\* The order of the nine offsets, as the claim gives it.
NineOffsets ==
    << <<0, 1>>, <<1, 0>>, <<-1, 0>>, <<0, -1>>, <<1, 1>>, <<-1, 1>>,
       <<1, -1>>, <<-1, -1>>, <<0, 2>> >>

\* In the grid the call started on: the k-th neighbour of the water cell
\* is a cell of the grid and matches one of the three cases.
Matching(k) ==
    LET x == call.x1 + NineOffsets[k][1]
        y == call.y1 + NineOffsets[k][2]
        c == call.pre[y * width + x]
    IN  /\ InRange(x, y)
        /\ \/ c.type = Sand
           \/ c.type = WetSand /\ c.soak < SOAK_THRESHOLD
           \/ c.type = WetSand /\ c.soak >= SOAK_THRESHOLD /\ y < call.y1

\* C17: after a call TryWetSand(wx, wy) at a Water cell of the grid pre:
\* if no neighbour at the nine offsets matches, it returned false and the
\* grid is pre; otherwise it returned true and the grid is pre changed
\* only at the water cell and the first matching neighbour in the order
\* of the offsets: Sand became WetSand of soak 1, or WetSand below the
\* threshold gained one soak, the water cell Empty in both cases, or a
\* saturated WetSand in a row above exchanged places with the water.
C17_FirstMatch ==
    call.op = "TryWetSand" =>
       LET found == {k \in 1..Len(NineOffsets) : Matching(k)}
       IN  IF found = {}
           THEN call.ret = FALSE /\ m_grid = call.pre
           ELSE LET k == CHOOSE m \in found : \A n \in found : m <= n
                    w == call.y1 * width + call.x1
                    i == (call.y1 + NineOffsets[k][2]) * width
                            + call.x1 + NineOffsets[k][1]
                    c == call.pre[i]
                    empty == [type |-> Empty, soak |-> 0]
                IN  /\ call.ret = TRUE
                    /\ m_grid =
                          IF c.type = Sand
                          THEN [call.pre EXCEPT ![i] = [type |-> WetSand, soak |-> 1],
                                                ![w] = empty]
                          ELSE IF c.soak < SOAK_THRESHOLD
                          THEN [call.pre EXCEPT ![i] = [type |-> WetSand,
                                                        soak |-> c.soak + 1],
                                                ![w] = empty]
                          ELSE [call.pre EXCEPT ![i] = call.pre[w], ![w] = c]

\* A call found two matching neighbours, neither at the first offset, and
\* acted on the first of them, clearing the water.
C17_Witness ==
    /\ call.op = "TryWetSand"
    /\ call.ret = TRUE
    /\ ~Matching(1)
    /\ Cardinality({k \in 1..Len(NineOffsets) : Matching(k)}) = 2
    /\ Material(m_grid) = 2

\* The cell that was WetSand at index i when the tick started had
\* something other than Empty or Water directly below it.
RestedAtStart(i) ==
    Row(i) + 1 >= height \/ tick0[i + width].type \notin {Empty, Water}

\* C18, as stated: all through a tick, a cell that was WetSand when the
\* tick started is in the column it started in, and in the cell it started
\* in if the cell directly below it was then neither Empty nor Water.
C18_Cohesion ==
    pc \in {"tick", "ui"} =>
       \A j \in DOMAIN m_grid :
          (org[j] # NoOrg /\ tick0[org[j]].type = WetSand) =>
             /\ Col(j) = Col(org[j])
             /\ RestedAtStart(org[j]) => j = org[j]

\* C18, amended: the step that processes a WetSand cell moves it one row
\* straight down if the cell below is Empty, exchanges it with Water
\* directly below, and otherwise leaves the grid as it is; and a step of
\* a tick takes a WetSand cell to another column only when it processes
\* a Water cell and TryWetSand exchanges the water with that cell, a
\* saturated one diagonally above it.
C18_RuleStep ==
    pc = "tick" =>
       LET c == GetIndex(CX, CY)
           below == IF CY + 1 < height THEN m_grid[c + width].type ELSE Sand
       IN  /\ m_grid[c].type = WetSand =>
                m_grid' = IF below \in {Empty, Water}
                          THEN [m_grid EXCEPT ![c] = m_grid[c + width],
                                              ![c + width] = m_grid[c]]
                          ELSE m_grid
           /\ \A i \in {k \in DOMAIN m_grid : m_grid[k].type = WetSand} :
                 \A j \in {k \in DOMAIN m_grid : org'[k] = org[i] /\ Col(k) # Col(i)} :
                    /\ m_grid[c].type = Water
                    /\ m_grid[i].soak >= SOAK_THRESHOLD
                    /\ j = c
                    /\ Row(i) = CY - 1
                    /\ Col(i) \in {CX - 1, CX + 1}
                    /\ m_grid'[i].type = Water

C18_Rule == [][C18_RuleStep]_vars

\* A saturated WetSand cell has changed column in a tick: the Water cell
\* diagonally below it exchanged places with it.
C18_Witness ==
    /\ pc \in {"tick", "ui"}
    /\ \E j \in DOMAIN m_grid :
          /\ org[j] # NoOrg
          /\ tick0[org[j]] = [type |-> WetSand, soak |-> SOAK_THRESHOLD]
          /\ m_grid[j] = tick0[org[j]]
          /\ Col(j) # Col(org[j])
          /\ Row(j) = Row(org[j]) + 1
          /\ m_grid[org[j]].type = Water

\* C19, as stated: no material cell is processed more than once in a
\* tick, and all through a tick a Water cell is at most one cell away,
\* in any direction, from the cell it started the tick in.
C19_Once ==
    pc \in {"tick", "ui"} =>
       /\ again = {}
       /\ \A j \in DOMAIN m_grid :
             m_grid[j].type = Water =>
                /\ Abs(Col(j) - Col(org[j])) <= 1
                /\ Abs(Row(j) - Row(org[j])) <= 1

\* C19, amended: a tick visits every cell of the grid once, in one pass;
\* the one it is about to process has not been taken to a lower row by
\* this tick and, if it is Sand or WetSand, has not been processed before
\* in this tick.  Only Water cells are processed more than once.
C19_OnePass ==
    /\ (pc = "tick" /\ scan = 0) =>
          \A k \in 0..(width * height - 1) :
             /\ InRange(ScanCell(k).x, ScanCell(k).y)
             /\ \A n \in 0..(k - 1) : ScanCell(n) # ScanCell(k)
    /\ pc = "tick" =>
          /\ scan \in 0..(width * height - 1)
          /\ Visited \cap fallen = {}
          /\ m_grid[GetIndex(CX, CY)].type \in {Sand, WetSand} =>
                Visited \cap seen = {}
    /\ pc \in {"tick", "ui"} =>
          \A j \in DOMAIN m_grid :
             (org[j] # NoOrg /\ org[j] \in again) => m_grid[j].type = Water

\* A tick has ended in which a Water cell was processed twice, moved
\* both times, and is in another column than it started in.
C19_Witness ==
    /\ pc = "ui"
    /\ \E j \in DOMAIN m_grid :
          /\ m_grid[j].type = Water
          /\ org[j] \in again
          /\ Col(j) # Col(org[j])
          /\ Row(j) = Row(org[j])


\* Chebyshev distance between the cells a and b, both <<x, y>>.
Chebyshev(a, b) ==
    IF Abs(a[1] - b[1]) >= Abs(a[2] - b[2])
    THEN Abs(a[1] - b[1]) ELSE Abs(a[2] - b[2])

\* The in-bounds Empty cells of the grid g within distance r of t.
EmptyNear(g, t, r) ==
    {c \in (0..(width - 1)) \X (0..(height - 1)) :
        g[c[2] * width + c[1]].type = Empty /\ Chebyshev(c, t) <= r}

\* C20: FindNearestEmpty(tx, ty, maxRadius) returns (-1, -1) exactly when no
\* in-bounds Empty cell lies within Chebyshev distance maxRadius of the
\* target; otherwise it returns an in-bounds Empty cell of minimal Chebyshev
\* distance (the target itself when that is in bounds and Empty), the first
\* of its ring by row and then by column; the grid is left as it was.
C20_Nearest ==
    (pc = "called" /\ call.op = "FindNearestEmpty") =>
        LET t == <<call.x1, call.y1>>
            E == EmptyNear(call.pre, t, call.x2)
            b == call.ret
        IN  /\ (b = <<-1, -1>>) <=> (E = {})
            /\ E # {} =>
                  /\ b \in E
                  /\ \A e \in E :
                        \/ Chebyshev(b, t) < Chebyshev(e, t)
                        \/ /\ Chebyshev(b, t) = Chebyshev(e, t)
                           /\ (b[2] < e[2] \/ (b[2] = e[2] /\ b[1] <= e[1]))
                  /\ (t \in E => b = t)
            /\ m_grid = call.pre

\* A search that passes a ring of occupied cells and then has two Empty
\* cells of the same ring to choose from, in different rows and columns.
C20_Witness ==
    /\ pc = "called"
    /\ call.op = "FindNearestEmpty"
    /\ call.ret # <<-1, -1>>
    /\ Chebyshev(call.ret, <<call.x1, call.y1>>) = 2
    /\ \E c \in (0..(width - 1)) \X (0..(height - 1)) :
          /\ Chebyshev(c, <<call.x1, call.y1>>) = 1
          /\ call.pre[c[2] * width + c[1]].type # Empty
    /\ \E e \in EmptyNear(call.pre, <<call.x1, call.y1>>, 2) :
          e[1] < call.ret[1] /\ e[2] > call.ret[2]


\* C12: Recenter(point) sets anchorPos, devicePos and proxyPos to the point
\* and the rail input value to 0, and Update never changes anchorPos: after
\* any Updates, mode switches and axis switches anchorPos is the point of
\* the most recent Recenter, or the initial anchor.
C12_Anchor ==
    /\ anchorPos = centre
    /\ call.op = "Recenter" =>
          /\ anchorPos = <<call.x1, call.y1>>
          /\ devicePos = <<call.x1, call.y1>>
          /\ proxyPos = <<call.x1, call.y1>>
          /\ rawInputVal = 0
    /\ call.op \in {"Update", "SetMode", "SetAxis"} => anchorPos = call.pre.anchor

\* An Update in the 2D mode, after a Recenter, that took the device away
\* from the anchor.
C12_Witness ==
    /\ call.op = "Update"
    /\ currentMode = Mode_2DOF
    /\ centre # HomePos
    /\ anchorPos = centre
    /\ devicePos # anchorPos

\* C13: in the 1D mode, after every Update the rail input value is within
\* [-0.08, 0.08] whatever the input source, devicePos is anchorPos displaced
\* along the active axis by rawInputVal * hapkitScale and has anchorPos's
\* coordinate off the axis; with the mouse 1000 cells beyond the anchor on
\* the X axis the input value is the maximum 0.08.
C13_Rail ==
    (call.op = "Update" /\ currentMode = Mode_1DOF) =>
        /\ rawInputVal >= -RailMax
        /\ rawInputVal <= RailMax
        /\ currentAxis = X_Axis =>
              /\ 500 * (devicePos[1] - anchorPos[1]) = rawInputVal * hapkitScale
              /\ devicePos[2] = anchorPos[2]
        /\ currentAxis = Y_Axis =>
              /\ 500 * (devicePos[2] - anchorPos[2]) = rawInputVal * hapkitScale
              /\ devicePos[1] = anchorPos[1]
        /\ (/\ call.pre.isMouseInput
            /\ currentAxis = X_Axis
            /\ call.x1 = anchorPos[1] + RailFar) =>
              rawInputVal = RailMax /\ devicePos[2] = anchorPos[2]

\* The mouse far beyond the rail's end on the X axis, away from the
\* anchor's row before the Update.
C13_Witness ==
    /\ call.op = "Update"
    /\ currentMode = Mode_1DOF
    /\ currentAxis = X_Axis
    /\ call.pre.isMouseInput
    /\ call.x1 = anchorPos[1] + RailFar
    /\ rawInputVal = RailMax
    /\ devicePos = <<anchorPos[1] + ToCells(RailMax), anchorPos[2]>>
    /\ proxyPos # devicePos

\* C16: after every Update in the 2D mode devicePos is the input target
\* and the scalar force output is 0, whatever the grid holds and however
\* far the proxy lags; the scalar force output is other than 0 only after
\* an Update in the 1D mode.
C16_Free ==
    /\ (call.op = "Update" /\ currentMode = Mode_2DOF) =>
          devicePos = <<call.x1, call.y1>> /\ currentForce1D = 0
    /\ currentForce1D # 0 => updated = Mode_1DOF

\* An Update in the 2D mode over a grid with sand that leaves the proxy
\* behind the device.
C16_Witness ==
    /\ call.op = "Update"
    /\ currentMode = Mode_2DOF
    /\ Material(m_grid) > 0
    /\ smoothedResistance > 0
    /\ proxyPos # devicePos
    /\ devicePos = <<call.x1, call.y1>>
    /\ currentForce1D = 0


\* C14: every iteration of main's loop makes at most one tick, only when
\* the accumulated time has reached tickDelayMs and with the accumulator
\* at 0 after it, and then, on every branch of the input handling, exactly
\* one haptics.Update with exactly one displacement pass; the tick is over
\* before the Update starts.
C14_Sequence ==
    /\ frame.ticks <= 1
    /\ frame.ticks = 1 => (frame.due /\ timeAccumulator = 0)
    /\ pc = "tick" => (frame.due /\ frame.ticks = 0)
    /\ pc \in {"tick", "ui", "interact", "haptics"} =>
          (frame.updates = 0 /\ frame.passes = 0)
    /\ pc \in {"ui", "interact", "haptics"} => (frame.due <=> frame.ticks = 1)
    /\ (pc \in {"gate", "done"} /\ frame.began) =>
          /\ frame.updates = 1
          /\ frame.passes = 1
          /\ frame.site \in {"mouse", "device", "device, away", "away"}

\* The end of an iteration that ticked over a grid with material and whose
\* Update was driven by the connected device, the view not hovered.
C14_Witness ==
    /\ pc = "gate"
    /\ frame.began
    /\ frame.ticks = 1
    /\ frame.updates = 1
    /\ frame.site = "device, away"
    /\ Material(m_grid) > 0

\* C15 as stated: whenever a connected device's connection is released, by
\* Disconnect or by the destructor at exit, "F 0.0" is written to the
\* device before the port is closed; afterwards connected is false and no
\* Sync writes to the device.
C15_ZeroForce ==
    /\ down # "dropped"
    /\ down = "closed" => (wire = "F 0.0" /\ ~connected)
    /\ ~late

\* C15, amended: Disconnect attempts the write of "F 0.0" before it closes
\* the port; when the write succeeds it is the last command the device
\* gets, when it throws the port is released without it.  Either way
\* connected is false and no port is open afterwards, and no Sync writes
\* to the device after the release.
C15_Teardown ==
    /\ connected <=> m_serial = "open"
    /\ connected => down = "no"
    /\ down = "closed" => (wire = "F 0.0" /\ ~connected)
    /\ down = "dropped" => (wire # "F 0.0" /\ ~connected)
    /\ pc = "done" => m_serial = "null"
    /\ ~late

\* The loop has ended on a device the last Update was driven by, and the
\* destructor's zero force was delivered.
C15_Witness ==
    /\ pc = "done"
    /\ frame.site \in {"device", "device, away"}
    /\ down = "closed"
    /\ wire = "F 0.0"
    /\ ~connected

\* How many cells of the grid g hold each (material, soak) pair.
Pairs(g) ==
    [c \in Stuff \cup {EmptyCell} |-> Cardinality({i \in DOMAIN g : g[i] = c})]

\* The cell with index i is within the radius of the proxy, as DisplaceSand
\* measures it: from the proxy to the cell's coordinates.
Reached(i) ==
    (2 * Col(i) - proxyPos[1]) * (2 * Col(i) - proxyPos[1])
        + (2 * Row(i) - proxyPos[2]) * (2 * Row(i) - proxyPos[2])
        <= 4 * radius * radius

\* C21: every step of a displacement pass either leaves the grid as it is
\* or takes the cell it is at, a material cell within the radius of the
\* proxy, to an in-bounds cell that was Empty, leaving Empty with soak 0
\* behind and every other cell as it was; it leaves the grid as it is when
\* no Empty cell lies within the search bound of the cell's target; all
\* through the pass the grid holds each (material, soak) pair as often as
\* when the pass began, and a material cell that was outside the radius
\* then is still where it was.
C21_PassStep ==
    /\ pc = "push" =>
          LET x == BoxCell(scan)[1]
              y == BoxCell(scan)[2]
              i == y * width + x
          IN  /\ m_grid' # m_grid =>
                    /\ InRange(x, y)
                    /\ m_grid[i].type # Empty
                    /\ Reached(i)
                    /\ \E j \in DOMAIN m_grid :
                          /\ j # i
                          /\ m_grid[j].type = Empty
                          /\ m_grid' = [m_grid EXCEPT ![j] = m_grid[i],
                                                      ![i] = [type |-> Empty, soak |-> 0]]
              /\ EmptyNear(m_grid, Target(x, y, proxyPos[1], proxyPos[2]),
                           SearchRadius) = {} => m_grid' = m_grid
    /\ pc' \in {"push", "pushed"} =>
          /\ Pairs(m_grid') = Pairs(g0')
          /\ \A i \in DOMAIN g0' :
                (g0'[i].type # Empty /\ ~Reached(i)') =>
                   (m_grid'[i] = g0'[i] /\ org'[i] = i)

C21_Pass == [][C21_PassStep]_vars

\* A pass over the one-row grid is over in which one cell within the
\* radius stayed, no Empty cell having been within the search bound of its
\* target, a second cell was moved to the Empty cell beyond it, and the
\* box reached over the edge of the grid.
C21_Witness ==
    /\ pc = "pushed"
    /\ height = 1
    /\ \E i \in DOMAIN g0 :
          /\ g0[i].type # Empty
          /\ Reached(i)
          /\ org[i] = i
          /\ EmptyNear(g0, Target(Col(i), Row(i), proxyPos[1], proxyPos[2]),
                       SearchRadius) = {}
    /\ \E j \in DOMAIN m_grid : org[j] # NoOrg /\ org[j] # j
    /\ TruncHalf(proxyPos[1]) - radius < 0

\* The number of cells of the grid g that are Sand or WetSand.
Solid(g) == Cardinality({i \in DOMAIN g : g[i].type \in {Sand, WetSand}})

\* The number of Water cells of the grid g.
Waters(g) == Cardinality({i \in DOMAIN g : g[i].type = Water})

\* C22: no step of a tick changes the number of cells that are Sand or
\* WetSand, and none raises the number of Water cells; all through a tick,
\* and at its end, the grid holds as many Sand or WetSand cells as when the
\* tick started and no more Water cells; a step of the frame that changes
\* the number of Sand or WetSand cells is "Reset Sand" in the Controls
\* window or the paint in the simulation view, never a displacement pass.
C22_CountStep ==
    /\ pc = "tick" =>
          /\ Solid(m_grid') = Solid(m_grid)
          /\ Waters(m_grid') <= Waters(m_grid)
          /\ Solid(m_grid') = Solid(tick0')
          /\ Waters(m_grid') <= Waters(tick0')
    /\ Solid(m_grid') # Solid(m_grid) => pc \in {"ui", "interact"}

C22_Count == [][C22_CountStep]_vars

\* A tick has ended in which a Sand cell moved and a reaction then turned
\* the Water cell into its soak: a Water cell less, the Sand and WetSand
\* cells as many as before.
C22_Witness ==
    /\ pc = "ui"
    /\ tick0 # <<>>
    /\ Solid(tick0) = 1
    /\ Solid(m_grid) = 1
    /\ Waters(tick0) = 1
    /\ Waters(m_grid) = 0
    /\ wet = 1
    /\ \E j \in DOMAIN m_grid :
          m_grid[j].type = WetSand /\ org[j] # j /\ tick0[org[j]].type = Sand

\* C23: on a grid of Sand and WetSand only, ticks following one another
\* with nothing painted or displaced between them, from some step on no
\* step changes the grid, whatever rand() yields.
C23_Settles == <>[][m_grid' = m_grid]_vars

\* A tick has ended that changed nothing, on a grid that is not the one
\* the ticks began with: a Sand cell that lay on another cell has slid off
\* it to the bottom row, which now holds every cell.
C23_Witness ==
    /\ pc = "ui"
    /\ g0 # <<>>
    /\ tick0 = m_grid
    /\ m_grid # g0
    /\ Material(m_grid) = MaxCells
    /\ \E i \in DOMAIN g0 :
          /\ g0[i].type = Sand
          /\ Row(i) < height - 1
          /\ g0[i + width].type # Empty
    /\ \A i \in DOMAIN m_grid : m_grid[i].type # Empty => Row(i) = height - 1

\* What C24 says of the reads, of failures and of a device that is not
\* connected: a call of Sync makes at most 50 line reads; no exception
\* leaves it; a step of the read loop changes the position only when it
\* read a position line that stof parsed, and the loop goes on after a
\* line on which stof threw; a write that throws leaves m_lastSentForce and
\* m_lastSendTime as they were; a call on a device that is not connected
\* returns at once and leaves every field and the port as they were.
SyncSwallows ==
    /\ sync'.reads <= maxReads
    /\ ~sync'.raised
    /\ sync.at = "reading" =>
          /\ m_currentPositionMeters' # m_currentPositionMeters =>
                sync'.last = "position"
          /\ sync'.last \in {"position", "parseThrows", "ignored"} =>
                sync'.at = "reading"
          /\ sync'.last \in {"availableThrows", "none", "capped", "readlineThrows"} =>
                sync'.at = "writing"
    /\ (sync.at = "writing" /\ sync'.failed) =>
          /\ sync'.at = "returned"
          /\ UNCHANGED <<m_lastSentForce, m_lastSendTime, wire>>
    /\ (sync'.now # sync.now /\ (~connected \/ m_serial = "null")) =>
          /\ sync'.at = "returned"
          /\ sync'.reads = 0
          /\ ~sync'.attempted
          /\ UNCHANGED <<connected, m_serial, wire, down, late,
                         m_currentPositionMeters, m_lastSentForce, m_lastSendTime>>

\* C24 as stated: the above, and the Sync that follows one whose write
\* threw attempts a write.
C24_RetriedStep ==
    /\ SyncSwallows
    /\ (sync.at = "writing" /\ sync.failed) => sync'.attempted

C24_Retried == [][C24_RetriedStep]_vars

\* C24, amended: the above, and a Sync attempts a write exactly when its
\* force differs from the last force sent by more than 0.005 N or more
\* than 0.05 s have passed since the last write that did not throw, a
\* write that threw counting for nothing; so the Sync that follows one
\* whose write threw attempts a write when it is called with the same
\* force.
C24_SwallowedStep ==
    /\ SyncSwallows
    /\ sync.at = "writing" =>
          /\ sync'.attempted <=> SendDue(sync.force, sync.now)
          /\ (sync.failed /\ sync.force = sync.failedForce) => sync'.attempted

C24_Swallowed == [][C24_SwallowedStep]_vars

\* A Sync has returned that made its 50 reads and stopped at the cap, kept
\* a position read before the last lines, and wrote the force that the
\* Sync before it had failed to write.
C24_Witness ==
    /\ sync.at = "returned"
    /\ sync.reads = maxReads
    /\ sync.maxReads < 0
    /\ sync.last = "capped"
    /\ m_currentPositionMeters # 0
    /\ sync.retried
    /\ ~sync.failed
    /\ m_lastSentForce = sync.force
    /\ m_lastSendTime = sync.now
    /\ connected

==========================================================================
